---- MODULE Spec2Model ----
(***************************************************************************)
(* The dependency-aware build/link orchestrator of spk (cmd/build.go,       *)
(* cmd/run.go and internal/npm/npm.go): the build-order planner            *)
(* getSmartBuildOrder, the three phases of buildRepo and of runScript, and *)
(* the build-all loop buildAllRepos; the recursive build of `spk run` with *)
(* getDepsForRun, the multi-consumer propagation, the two variants of      *)
(* `spk sync`, `spk env link` and `spk remove`.                            *)
(*                                                                         *)
(* A Go `range` over a map visits the keys in an unspecified order; every  *)
(* such loop whose result depends on that order takes the iteration order  *)
(* as an input `it`, drawn from the permutations of the key set.           *)
(***************************************************************************)
EXTENDS Integers, Sequences, FiniteSets, TLC

\* ------------------------------------------------------------------ data

\* Repository names a workspace manifest may mention.
Names == {"AppModel", "AppAPI", "A", "B", "C"}

\* Most explicit dependency entries (over all repositories) of a manifest
\* the planner is run on.
MaxDeps == 2

\* cmd/build.go: var apiToModel
apiToModel == [AppAPI |-> "AppModel", BusinessAPI |-> "BusinessModel"]

\* cmd/build.go: var modelToAPI
modelToAPI ==
  [AppModel      |-> [api |-> "AppAPI",      pkg |-> "@spark-rewards/sra-sdk"],
   BusinessModel |-> [api |-> "BusinessAPI", pkg |-> "@spark-rewards/srw-sdk"]]

\* cmd/build.go: var knownBuildCommands (the keys)
knownBuildCommands == {"AppModel", "BusinessModel", "AppAPI", "BusinessAPI"}

Range(s) == {s[i] : i \in 1..Len(s)}

\* The orders in which a `range` over a map with key set S may visit it.
RECURSIVE Perms(_)
Perms(S) ==
  IF S = {} THEN {<<>>}
  ELSE UNION {{<<x>> \o p : p \in Perms(S \ {x})} : x \in S}

\* The repositories of Names that the model->API table knows.
Models == Names \cap DOMAIN modelToAPI
Apis   == Names \cap DOMAIN apiToModel

\* The files IsBuilt looks for in a model's build output directory.
BuildFiles == {"package.json", "dist-types"}

\* What node_modules/<pkg> of a consumer can be: nothing, a regular file or
\* directory (an installed copy), a symlink into the producer's build
\* output, or a symlink to somewhere else.
SlotStates == {"absent", "real", "local", "stale"}

\* What the .env of a repository directory can be: nothing, a regular file,
\* a directory, a symlink to the .env of the workspace, or a symlink to
\* somewhere else.
EnvStates == {"absent", "regular", "dir", "symlink", "stale"}

\* No repository has a .env, nor has the workspace (key "").
NoEnv == [n \in Names \cup {""} |-> "absent"]

\* Linking phases counted in linkHistory.
MaxRuns == 3

\* The scripts `spk run` is given.
Scripts == {"build", "test"}

VARIABLES
  ws,             \* ws.Repos: registered name -> RepoDef
  cloned,         \* the repositories whose directory exists
  projectFiles,   \* the repositories with a package.json, build.gradle,
                  \* Makefile or go.mod in their directory
  built,          \* model -> the BuildFiles present in its build output
  slot,           \* consumer -> state of node_modules/<pkg>
  dotEnv,         \* repository -> state of its .env; "" -> the workspace's
  buildAll,       \* flag --all
  buildNoLink,    \* flag --no-link
  buildPublished, \* flag --published
  runPublished,   \* flag --published of `spk run`
  runRecursive,   \* flag --recursive of `spk run`
  runTarget,      \* buildRecursivelyRun: target; "" outside it
  syncNoRebase,   \* flag --no-rebase of `spk sync`
  script,         \* runScript: script; "" while `spk build` runs
  pc,             \* position of the running command
  target,         \* buildRepo: name
  idx,            \* buildAllRepos: position in order
  inDegree,       \* getSmartBuildOrder: local inDegree
  dependents,     \* getSmartBuildOrder: local dependents
  order,          \* getSmartBuildOrder: local order, then the returned slice
  result,         \* what the last command returned
  trace,          \* the external commands the running command has run and
                  \* the repositories it has skipped, in order
  linkHistory     \* consumer -> the linking phases run for its edge, from
                  \* the first that left it linked, since its producer was
                  \* last built

fsVars   == <<cloned, projectFiles, built, slot, dotEnv>>
flagVars == <<buildAll, buildNoLink, buildPublished, runPublished,
              runRecursive, runTarget, syncNoRebase, script>>
planVars == <<inDegree, dependents, order>>
histVars == <<trace, linkHistory>>

vars == <<ws, cloned, projectFiles, built, slot, dotEnv, buildAll, buildNoLink,
          buildPublished, runPublished, runRecursive, runTarget, syncNoRebase,
          script, pc, target, idx, inDegree,
          dependents, order, result, trace, linkHistory>>

Registered == DOMAIN ws

\* ------------------------------------------------------- manifests (input)

RECURSIVE Manifests(_, _)
\* The manifests over the repositories reg with at most k dependency entries.
Manifests(reg, k) ==
  IF k = 0 THEN {[r \in reg |-> [BuildCommand |-> "", Dependencies |-> <<>>]]}
  ELSE LET less == Manifests(reg, k - 1)
       IN  less \cup
           {[f EXCEPT ![r].Dependencies = Append(@, d)] :
              f \in less, r \in reg, d \in Names}

AllManifests(k) == UNION {Manifests(reg, k) : reg \in SUBSET Names}

\* ------------------------------------------------------ getSmartBuildOrder

NoGraph == [inDegree |-> <<>>, dependents |-> <<>>]

\* dependents[k] of a Go map[string][]string: nil for a missing key.
EmptyDependents == [n \in Names \cup DOMAIN modelToAPI |-> <<>>]

\* ModelEdge that adds no edge.
ModelEdge_none(g, name) == g

\* build.go 275-282: one iteration of the loop over the model->API table.
ModelEdge(g, name) ==
  IF name \in DOMAIN apiToModel /\ apiToModel[name] \in DOMAIN g.inDegree
  THEN [inDegree   |-> [g.inDegree EXCEPT ![name] = @ + 1],
        dependents |-> [g.dependents EXCEPT ![apiToModel[name]] = Append(@, name)]]
  ELSE g

RECURSIVE ModelEdges(_, _)
\* build.go 275-282: the loop over ws.Repos. It appends to dependents[m] at
\* most once for each model m (apiToModel maps no two names to the same
\* model), so its result is the same in every visiting order.
ModelEdges(g, todo) ==
  IF todo = {} THEN g
  ELSE LET name == CHOOSE n \in todo : TRUE
       IN  ModelEdges(ModelEdge(g, name), todo \ {name})

\* ExplicitEdge without the check that dep is registered (build.go 286).
ExplicitEdge_unchecked(g, name, dep) ==
  IF name \notin Range(g.dependents[dep])
  THEN [inDegree   |-> [g.inDegree EXCEPT ![name] = @ + 1],
        dependents |-> [g.dependents EXCEPT ![dep] = Append(@, name)]]
  ELSE g

\* build.go 285-299: one entry dep of repo.Dependencies of repository name.
ExplicitEdge(g, name, dep) ==
  IF dep \in DOMAIN g.inDegree /\ name \notin Range(g.dependents[dep])
  THEN [inDegree   |-> [g.inDegree EXCEPT ![name] = @ + 1],
        dependents |-> [g.dependents EXCEPT ![dep] = Append(@, name)]]
  ELSE g

RECURSIVE ExplicitEdgesOf(_, _, _)
ExplicitEdgesOf(g, name, deps) ==
  IF deps = <<>> THEN g
  ELSE ExplicitEdgesOf(ExplicitEdge(g, name, Head(deps)), name, Tail(deps))

RECURSIVE ExplicitEdges(_, _, _)
\* build.go 284-300: the loop over ws.Repos, visiting it in the order it.
ExplicitEdges(g, repos, it) ==
  IF it = <<>> THEN g
  ELSE ExplicitEdges(ExplicitEdgesOf(g, Head(it), repos[Head(it)].Dependencies),
                     repos, Tail(it))

\* build.go 268-300. it is the visiting order of the loop at 284.
BuildGraph(repos, it) ==
  LET g0 == [inDegree   |-> [n \in DOMAIN repos |-> 0],
             dependents |-> EmptyDependents]
  IN  ExplicitEdges(ModelEdges(g0, DOMAIN repos), repos, it)

\* build.go 302-307: the names of in-degree 0, in the order the `range` over
\* inDegree visits them: the queues this loop can build.
SeedQueues(deg) == Perms({n \in DOMAIN deg : deg[n] = 0})

RECURSIVE Release_early(_, _)
\* Release that also queues dep when one dependency of it is still unbuilt
\* (the test at build.go 317 off by one).
Release_early(st, ds) ==
  IF ds = <<>> THEN st
  ELSE LET dep == Head(ds)
           deg == st.inDegree[dep] - 1
       IN  Release_early([queue    |-> IF deg \in {0, 1} THEN Append(st.queue, dep)
                                                   ELSE st.queue,
                          inDegree |-> [st.inDegree EXCEPT ![dep] = deg]],
                         Tail(ds))

RECURSIVE Release(_, _)
\* build.go 315-320: st = [queue, inDegree]; ds = dependents[current].
Release(st, ds) ==
  IF ds = <<>> THEN st
  ELSE LET dep == Head(ds)
           deg == st.inDegree[dep] - 1
       IN  Release([queue    |-> IF deg = 0 THEN Append(st.queue, dep)
                                             ELSE st.queue,
                    inDegree |-> [st.inDegree EXCEPT ![dep] = deg]],
                   Tail(ds))

RECURSIVE Kahn(_, _, _, _)
\* build.go 309-321.
Kahn(queue, deg, deps, out) ==
  IF queue = <<>> THEN out
  ELSE LET current == Head(queue)
           st      == Release([queue |-> Tail(queue), inDegree |-> deg],
                              deps[current])
       IN  Kahn(st.queue, st.inDegree, deps, Append(out, current))

\* AppendMissing that appends every repository, emitted or not.
AppendMissing_all(out, repos) ==
  {out \o rest : rest \in Perms(DOMAIN repos)}

\* AppendMissing without the loop at build.go 323-334.
AppendMissing_none(out, repos) == {out}

\* build.go 323-336: the registered names not in out are appended in the
\* order the `range` over ws.Repos visits them: the slices it can return.
AppendMissing(out, repos) ==
  {out \o rest : rest \in Perms(DOMAIN repos \ Range(out))}

\* ----------------------------------------------------------- planner steps

\* build.go 268-300
PlanGraph ==
  /\ pc = "plan"
  /\ \E it \in Perms(Registered) :
       LET g == BuildGraph(ws, it)
       IN  /\ inDegree' = g.inDegree
           /\ dependents' = g.dependents
  /\ pc' = "kahn"
  /\ UNCHANGED <<ws, order, fsVars, flagVars, target, idx, result, histVars>>

\* build.go 302-321
PlanKahn ==
  /\ pc = "kahn"
  /\ \E queue \in SeedQueues(inDegree) :
       order' = Kahn(queue, inDegree, dependents, <<>>)
  /\ pc' = "rest"
  /\ UNCHANGED <<ws, inDegree, dependents, fsVars, flagVars, target, idx,
                 result, histVars>>

\* build.go 323-336
PlanRest ==
  /\ pc = "rest"
  /\ order' \in AppendMissing(order, ws)
  /\ pc' = "planned"
  /\ inDegree' = NoGraph.inDegree
  /\ dependents' = NoGraph.dependents
  /\ UNCHANGED <<ws, fsVars, flagVars, target, idx, result, histVars>>

NoResult == [status |-> "none", at |-> ""]
NoHistory == [runs |-> 0, first |-> "", slot |-> "", steady |-> TRUE]

\* The planner alone, on every manifest with at most MaxDeps dependency
\* entries; every repository is cloned and nothing is built or linked.
InitPlan ==
  /\ ws \in AllManifests(MaxDeps)
  /\ cloned = Registered
  /\ projectFiles = cloned
  /\ built = [m \in Models |-> {}]
  /\ slot = [c \in Apis |-> "absent"]
  /\ buildAll = TRUE
  /\ buildNoLink = FALSE
  /\ buildPublished = FALSE
  /\ runPublished = FALSE
  /\ runRecursive = FALSE
  /\ runTarget = ""
  /\ syncNoRebase = FALSE
  /\ dotEnv = NoEnv
  /\ script = ""
  /\ pc = "plan"
  /\ target = ""
  /\ idx = 1
  /\ inDegree = NoGraph.inDegree
  /\ dependents = NoGraph.dependents
  /\ order = <<>>
  /\ result = NoResult
  /\ trace = <<>>
  /\ linkHistory = [c \in Apis |-> NoHistory]

NextPlan == PlanGraph \/ PlanKahn \/ PlanRest

SpecPlan == InitPlan /\ [][NextPlan]_vars

\* ------------------------------------------------------------ filesystem

\* IsBuilt that looks for package.json only.
IsBuilt_packageOnly(files) == "package.json" \in files

\* npm.go 42-55: IsBuilt, given the files present in the build output.
IsBuilt(files) == "package.json" \in files /\ "dist-types" \in files

\* IsLinked that takes any entry for a link.
IsLinked_exists(s) == s # "absent"

\* npm.go 84-91: IsLinked, given the state of node_modules/<pkg>.
IsLinked(s) == s \in {"local", "stale"}

\* How `npm link` in the build output followed by `npm link <pkg>` in the
\* consumer (npm.go 15-30) can end: both succeed, the first fails, or the
\* second fails.
LinkOutcomes == {"ok", "linkfail", "pkgfail"}

\* NpmLink that leaves a regular file or directory in place.
NpmLink_sparing(s, out) == IF out = "ok" /\ s # "real" THEN "local" ELSE s

\* npm.go 15-30: node_modules/<pkg> after the two commands ended as out.
\* `npm link <pkg>` puts a symlink to the linked package in the place of
\* whatever was there.
NpmLink(s, out) == IF out = "ok" THEN "local" ELSE s

\* How DirectLink can end: nil, or an error of MkdirAll, RemoveAll or Symlink.
DirectLinkOutcomes == {"ok", "mkdir", "remove", "symlink"}

\* npm.go 119-138: node_modules/<pkg> after DirectLink ended as out.
DirectLink(s, out) ==
  IF out = "ok" THEN "local"
  ELSE IF out = "symlink" THEN "absent"
  ELSE s

\* build.go 88-111
getBuildCommand(name) ==
  IF ws[name].BuildCommand # "" THEN ws[name].BuildCommand
  ELSE IF name \in knownBuildCommands THEN "npm run build"
  ELSE IF name \in projectFiles THEN "detected"
  ELSE ""

\* run.go 162-191: detectProjectType and buildCommand. The project file of
\* a repository that has one offers every script of Scripts.
buildCommand(name, scr) ==
  IF name \in projectFiles THEN "detected" ELSE ""

\* build.go 137 and run.go 140-141: the command of the running build.
Command(name) ==
  IF script = "" THEN getBuildCommand(name) ELSE buildCommand(name, script)

\* ------------------------------------------------------------ bookkeeping

\* "built" or "unbuilt": whether a build output holds every file of
\* BuildFiles.
Output(files) == IF BuildFiles \subseteq files THEN "built" ELSE "unbuilt"

\* An entry of trace: step ev of the build of repo ended as res. For a link,
\* consumer is the repository linked and before and after are its slot
\* around the link; for the build command of a model, before and after are
\* the Output of its build output around the command; they are ""
\* otherwise.
Event(ev, repo, res, consumer, before, after) ==
  [ev |-> ev, repo |-> repo, res |-> res, consumer |-> consumer,
   before |-> before, after |-> after]

\* linkHistory with one more linking phase for consumer c, which ended as
\* res ("linked", "already", "failed" or "unbuilt") and left the slot after.
\* Counting starts with the first phase that leaves the consumer linked;
\* steady records that every later phase found it already linked and left
\* the slot as the first did.
Remember(c, res, after) ==
  LET h == linkHistory[c]
  IN  [linkHistory EXCEPT ![c] =
         IF h.runs = 0
         THEN IF res \in {"linked", "already"}
              THEN [runs |-> 1, first |-> res, slot |-> after, steady |-> TRUE]
              ELSE h
         ELSE [h EXCEPT !.runs = IF @ < MaxRuns THEN @ + 1 ELSE @,
                        !.steady = @ /\ res = "already" /\ after = h.slot]]

\* linkHistory once the producer of consumer c is rebuilt, or its slot is
\* changed from outside the linking phases.
Forget(c) == [linkHistory EXCEPT ![c] = NoHistory]

\* ---------------------------------------------------------------- buildRepo

\* LinkingOn with --published ignored.
LinkingOn_published ==
  IF script = "" THEN ~buildNoLink ELSE script = "build"

\* Linking that --published does not turn off.
Linking_noLinkOnly(noLink, published) == ~noLink

\* build.go 131, 148: the guard of phases 1 and 3 under the two flags.
Linking(noLink, published) == ~noLink /\ ~published

\* build.go 131, 148 and run.go 134, 152
LinkingOn ==
  IF script = "" THEN Linking(buildNoLink, buildPublished)
  ELSE script = "build" /\ ~runPublished

\* BuildRepoEntry without the check of the directory.
BuildRepoEntry_anyDir(name) ==
  IF name \notin Registered THEN "notfound" ELSE ""

\* BuildRepoEntry without the check of the name.
BuildRepoEntry_anyName(name) ==
  IF name \notin cloned THEN "nodir" ELSE ""

\* build.go 119-127: the error buildRepo returns before building, if any.
BuildRepoEntry(name) ==
  IF name \notin Registered THEN "notfound"
  ELSE IF name \notin cloned THEN "nodir"
  ELSE ""

\* LinkDecision without the IsLinked check.
LinkDecision_relink(name) ==
  IF name \notin DOMAIN apiToModel THEN "notapi"
  ELSE IF apiToModel[name] \notin Registered THEN "unregistered"
  ELSE IF ~IsBuilt(built[apiToModel[name]]) THEN "unbuilt"
  ELSE "link"

\* LinkDecision that never links.
LinkDecision_published(name) ==
  IF name \notin DOMAIN apiToModel THEN "notapi"
  ELSE IF apiToModel[name] \notin Registered THEN "unregistered"
  ELSE IF IsLinked(slot[name]) /\ IsBuilt(built[apiToModel[name]]) THEN "already"
  ELSE "unbuilt"

\* build.go 159-181: what autoLinkDependencies does for name.
LinkDecision(name) ==
  IF name \notin DOMAIN apiToModel THEN "notapi"
  ELSE IF apiToModel[name] \notin Registered THEN "unregistered"
  ELSE IF ~IsBuilt(built[apiToModel[name]]) THEN "unbuilt"
  ELSE IF IsLinked(slot[name]) THEN "already"
  ELSE "link"

\* PropagateDecision on the IsBuilt observed before the build command ran.
PropagateDecision_cached(name) ==
  IF name \notin DOMAIN modelToAPI THEN "notmodel"
  ELSE IF modelToAPI[name].api \notin Registered THEN "unregistered"
  ELSE IF modelToAPI[name].api \notin cloned THEN "notcloned"
  ELSE IF trace[Len(trace)].before # "built" THEN "unbuilt"
  ELSE IF IsLinked(slot[modelToAPI[name].api]) THEN "already"
  ELSE "link"

\* build.go 199-223: what autoLinkToConsumers does for name.
PropagateDecision(name) ==
  IF name \notin DOMAIN modelToAPI THEN "notmodel"
  ELSE IF modelToAPI[name].api \notin Registered THEN "unregistered"
  ELSE IF modelToAPI[name].api \notin cloned THEN "notcloned"
  ELSE IF ~IsBuilt(built[name]) THEN "unbuilt"
  ELSE IF IsLinked(slot[modelToAPI[name].api]) THEN "already"
  ELSE "link"

\* build.go 183-195 and 225-236: link consumer api to the build output of
\* its model.
LinkConsumer(api) ==
  \E out \in LinkOutcomes :
    LET after == NpmLink(slot[api], out)
    IN  /\ slot' = [slot EXCEPT ![api] = after]
        /\ trace' = Append(trace,
                            Event("link", target, out, api, slot[api], after))
        /\ linkHistory' =
             Remember(api, IF out = "ok" THEN "linked" ELSE "failed", after)

\* A linking phase that finds the edge of consumer api and does not link.
LeaveConsumer(api, decision) ==
  /\ linkHistory' = Remember(api, decision, slot[api])
  /\ UNCHANGED <<slot, trace>>

\* build.go 154-155 and run.go 159, and the caller's next step: buildRepo
\* (runScript) returns nil, to the loop of buildAllRepos, to the loop of
\* buildRecursivelyRun (run.go 406-409) or to the command.
ReturnNil ==
  IF buildAll
  THEN /\ pc' = "planned"
       /\ idx' = idx + 1
       /\ UNCHANGED result
  ELSE IF runRecursive /\ idx <= Len(order)
  THEN /\ pc' = "deps"
       /\ idx' = idx + 1
       /\ UNCHANGED result
  ELSE /\ pc' = "idle"
       /\ result' = [status |-> "ok", at |-> target]
       /\ UNCHANGED idx

\* Phase1 that returns the error of a failed link instead of warning.
Phase1_fatal(on) ==
  /\ pc = "link"
  /\ \/ /\ ~on \/ LinkDecision(target) \in {"notapi", "unregistered"}
        /\ pc' = "build"
        /\ UNCHANGED <<slot, histVars, result>>
     \/ /\ on
        /\ LinkDecision(target) \in {"unbuilt", "already"}
        /\ LeaveConsumer(target, LinkDecision(target))
        /\ pc' = "build"
        /\ UNCHANGED result
     \/ /\ on
        /\ LinkDecision(target) = "link"
        /\ \E out \in LinkOutcomes :
             LET after == NpmLink(slot[target], out)
             IN  /\ slot' = [slot EXCEPT ![target] = after]
                 /\ trace' = Append(trace, Event("link", target, out, target,
                                                 slot[target], after))
                 /\ linkHistory' =
                      Remember(target, IF out = "ok" THEN "linked" ELSE "failed",
                               after)
                 /\ IF out = "ok"
                    THEN pc' = "build" /\ UNCHANGED result
                    ELSE /\ pc' = "idle"
                         /\ result' = [status |-> "linkfailed", at |-> target]
  /\ UNCHANGED <<ws, cloned, projectFiles, dotEnv, built, flagVars, target, idx,
                 planVars>>

\* build.go 131-135 and run.go 134-138: phase 1, with the guard evaluating
\* to on.
Phase1(on) ==
  /\ pc = "link"
  /\ \/ /\ ~on
        /\ UNCHANGED <<slot, histVars>>
     \/ /\ on
        /\ LinkDecision(target) \in {"notapi", "unregistered"}
        /\ UNCHANGED <<slot, histVars>>
     \/ /\ on
        /\ LinkDecision(target) \in {"unbuilt", "already"}
        /\ LeaveConsumer(target, LinkDecision(target))
     \/ /\ on
        /\ LinkDecision(target) = "link"
        /\ LinkConsumer(target)
  /\ pc' = "build"
  /\ UNCHANGED <<ws, cloned, projectFiles, dotEnv, built, flagVars, target, idx,
                 planVars, result>>

\* build.go 131-135 and run.go 134-138: phase 1.
AutoLinkDependencies == Phase1(LinkingOn)

\* build.go 144-146 and 257-259, run.go 148-150: the build command failed;
\* buildRepo returns the error and buildAllRepos returns it in turn.
BuildFailed_continue(name) ==
  IF buildAll
  THEN /\ pc' = "planned"
       /\ idx' = idx + 1
       /\ UNCHANGED result
  ELSE /\ pc' = "idle"
       /\ result' = [status |-> "buildfailed", at |-> name]
       /\ UNCHANGED idx

\* BuildFailed that lets the loop of buildRecursivelyRun go on to the next
\* dependency.
BuildFailed_resume(name) ==
  IF runRecursive /\ idx <= Len(order)
  THEN /\ pc' = "deps"
       /\ idx' = idx + 1
       /\ UNCHANGED result
  ELSE /\ pc' = "idle"
       /\ result' = [status |-> "buildfailed", at |-> name]
       /\ UNCHANGED idx

BuildFailed(name) ==
  /\ pc' = "idle"
  /\ result' = [status |-> "buildfailed", at |-> name]
  /\ UNCHANGED idx

\* build.go 137-141: no build command, buildRepo returns nil.
\* run.go 143-146: no command for the script, runScript returns an error.
NoBuildCommand ==
  /\ pc = "build"
  /\ Command(target) = ""
  /\ trace' = Append(trace, Event("nocmd", target, "skipped", "", "", ""))
  /\ IF script = ""
     THEN ReturnNil
     ELSE /\ pc' = "idle"
          /\ result' = [status |-> "noscript", at |-> target]
          /\ UNCHANGED idx
  /\ UNCHANGED <<ws, fsVars, flagVars, target, planVars, linkHistory>>

\* build.go 143-146 and run.go 148-150: phase 2. The build command writes what it writes into
\* the build output of its own repository and exits zero or not.
RunBuild ==
  /\ pc = "build"
  /\ Command(target) # ""
  /\ \E exit \in {"ok", "failed"} :
       IF exit = "ok"
       THEN /\ pc' = "propagate"
            /\ UNCHANGED <<idx, result>>
       ELSE BuildFailed(target)
  /\ IF target \in Models
     THEN /\ \E files \in SUBSET BuildFiles :
               built' = [built EXCEPT ![target] = files]
          /\ linkHistory' = Forget(modelToAPI[target].api)
     ELSE UNCHANGED <<built, linkHistory>>
  /\ trace' =
       Append(trace,
              Event("build", target,
                    IF pc' = "propagate" THEN "ok" ELSE "failed", "",
                    IF target \in Models THEN Output(built[target]) ELSE "",
                    IF target \in Models THEN Output(built'[target]) ELSE ""))
  /\ UNCHANGED <<ws, cloned, projectFiles, dotEnv, slot, flagVars, target, planVars>>

\* build.go 148-155 and run.go 152-158: phase 3, with the guard evaluating
\* to on; then buildRepo (runScript) returns nil.
Phase3(on) ==
  /\ pc = "propagate"
  /\ \/ /\ ~on
        /\ UNCHANGED <<slot, histVars>>
     \/ /\ on
        /\ PropagateDecision(target) \in {"notmodel", "unregistered", "notcloned"}
        /\ UNCHANGED <<slot, histVars>>
     \/ /\ on
        /\ PropagateDecision(target) \in {"unbuilt", "already"}
        /\ LeaveConsumer(modelToAPI[target].api, PropagateDecision(target))
     \/ /\ on
        /\ PropagateDecision(target) = "link"
        /\ LinkConsumer(modelToAPI[target].api)
  /\ ReturnNil
  /\ UNCHANGED <<ws, cloned, projectFiles, dotEnv, built, flagVars, target, planVars>>

\* build.go 148-155 and run.go 152-158: phase 3.
AutoLinkToConsumers == Phase3(LinkingOn)

\* ------------------------------------------------------------ buildAllRepos

\* build.go 245-261: one turn of the loop over order.
BuildAllNext ==
  /\ pc = "planned"
  /\ \/ /\ idx > Len(order)
        /\ pc' = "idle"
        /\ result' = [status |-> "ok", at |-> ""]
        /\ UNCHANGED <<target, idx, trace>>
     \/ /\ idx <= Len(order)
        /\ BuildRepoEntry(order[idx]) # ""
        /\ trace' = IF order[idx] \in Registered
                    THEN Append(trace, Event("skip", order[idx], "not cloned",
                                              "", "", ""))
                    ELSE trace
        /\ idx' = idx + 1
        /\ UNCHANGED <<pc, target, result>>
     \/ /\ idx <= Len(order)
        /\ BuildRepoEntry(order[idx]) = ""
        /\ target' = order[idx]
        /\ pc' = "link"
        /\ UNCHANGED <<idx, result, trace>>
  /\ UNCHANGED <<ws, fsVars, flagVars, inDegree, dependents, order,
                 linkHistory>>

\* ------------------------------------------------------------ the commands

\* build.go 65-85: `spk build` with its flags and argument ("" for none).
BuildCmd(all, noLink, published, arg) ==
  /\ pc = "idle"
  /\ buildAll' = all
  /\ buildNoLink' = noLink
  /\ buildPublished' = published
  /\ runPublished' = FALSE
  /\ runRecursive' = FALSE
  /\ runTarget' = ""
  /\ syncNoRebase' = FALSE
  /\ script' = ""
  /\ trace' = <<>>
  /\ order' = <<>>
  /\ idx' = 1
  /\ IF all
     THEN /\ pc' = "plan"
          /\ target' = ""
          /\ result' = NoResult
     ELSE IF arg = ""
     THEN /\ pc' = "idle"
          /\ target' = ""
          /\ result' = [status |-> "usage", at |-> ""]
     ELSE IF BuildRepoEntry(arg) # ""
     THEN /\ pc' = "idle"
          /\ target' = arg
          /\ result' = [status |-> BuildRepoEntry(arg), at |-> arg]
     ELSE /\ pc' = "link"
          /\ target' = arg
          /\ result' = NoResult
  /\ UNCHANGED <<ws, fsVars, inDegree, dependents, linkHistory>>

\* run.go 73-93: `spk run <scr>` from the directory cwd ("" for a directory
\* outside every repository), without --recursive. detectCurrentRepoForRun
\* returns a registered repository whose directory holds the working
\* directory, so runScript's own checks of the name (run.go 124-132) pass.
RunCmd(scr, published, cwd) ==
  /\ pc = "idle"
  /\ buildAll' = FALSE
  /\ buildNoLink' = FALSE
  /\ buildPublished' = FALSE
  /\ runPublished' = published
  /\ runRecursive' = FALSE
  /\ runTarget' = ""
  /\ syncNoRebase' = FALSE
  /\ script' = scr
  /\ trace' = <<>>
  /\ order' = <<>>
  /\ idx' = 1
  /\ IF cwd \in Registered \cap cloned
     THEN /\ pc' = "link"
          /\ target' = cwd
          /\ result' = NoResult
     ELSE /\ pc' = "idle"
          /\ target' = ""
          /\ result' = [status |-> "notinrepo", at |-> ""]
  /\ UNCHANGED <<ws, fsVars, inDegree, dependents, linkHistory>>

\* npm.go 119-138: a call of DirectLink for consumer c, outside any build.
DirectLinkCall(c) ==
  /\ pc = "idle"
  /\ c \in cloned
  /\ \E out \in DirectLinkOutcomes :
       LET after == DirectLink(slot[c], out)
       IN  /\ slot' = [slot EXCEPT ![c] = after]
           /\ trace' = <<Event("DirectLink", "", out, c, slot[c], after)>>
  /\ linkHistory' = Forget(c)
  /\ result' = NoResult
  /\ target' = ""
  /\ order' = <<>>
  /\ idx' = 1
  /\ UNCHANGED <<ws, cloned, projectFiles, dotEnv, built, flagVars, pc, inDegree,
                 dependents>>

\* A workspace without explicit dependencies (the planner is run on those
\* in SpecPlan), at most one of its repositories not cloned, C possibly
\* without any project file, and every state of the model's build output
\* and of the consumer's package slot.
Init ==
  /\ ws \in AllManifests(0)
  /\ \E r \in {"AppModel", "AppAPI", "A", ""} : cloned = Registered \ {r}
  /\ \E r \in {"C", ""} : projectFiles = cloned \ {r}
  /\ built \in [Models -> SUBSET BuildFiles]
  /\ \A m \in Models : m \notin cloned => built[m] = {}
  /\ slot \in [Apis -> SlotStates]
  /\ \A c \in Apis : c \notin cloned => slot[c] = "absent"
  /\ buildAll = FALSE
  /\ buildNoLink = FALSE
  /\ buildPublished = FALSE
  /\ runPublished = FALSE
  /\ runRecursive = FALSE
  /\ runTarget = ""
  /\ syncNoRebase = FALSE
  /\ dotEnv = NoEnv
  /\ script = ""
  /\ pc = "idle"
  /\ target = ""
  /\ idx = 1
  /\ inDegree = NoGraph.inDegree
  /\ dependents = NoGraph.dependents
  /\ order = <<>>
  /\ result = NoResult
  /\ trace = <<>>
  /\ linkHistory = [c \in Apis |-> NoHistory]

Next ==
  \/ \E noLink \in BOOLEAN, published \in BOOLEAN :
        \/ BuildCmd(TRUE, noLink, published, "")
        \/ \E arg \in Names \cup {""} : BuildCmd(FALSE, noLink, published, arg)
  \/ \E scr \in Scripts, published \in BOOLEAN, cwd \in Names \cup {""} :
        RunCmd(scr, published, cwd)
  \/ PlanGraph
  \/ PlanKahn
  \/ PlanRest
  \/ BuildAllNext
  \/ AutoLinkDependencies
  \/ NoBuildCommand
  \/ RunBuild
  \/ AutoLinkToConsumers
  \/ \E c \in Apis : DirectLinkCall(c)

Spec == Init /\ [][Next]_vars

\* ------------------------------------------------------- build-all alone

\* Most repositories, and most explicit dependency entries, of a workspace
\* that build-all alone is run on.
MaxAllRepos == 3
MaxAllDeps == 1

\* `spk build --all`, linking on, on every workspace of at most MaxAllRepos
\* repositories that registers a model and its API, with at most MaxAllDeps
\* dependency entries; every repository is cloned, C possibly without any
\* project file, nothing is linked.
InitAll ==
  /\ ws \in AllManifests(MaxAllDeps)
  /\ Models \cup Apis \subseteq Registered
  /\ Cardinality(Registered) <= MaxAllRepos
  /\ cloned = Registered
  /\ \E r \in {"C", ""} : projectFiles = cloned \ {r}
  /\ built \in [Models -> {{}, BuildFiles}]
  /\ slot = [c \in Apis |-> "absent"]
  /\ buildAll = TRUE
  /\ buildNoLink = FALSE
  /\ buildPublished = FALSE
  /\ runPublished = FALSE
  /\ runRecursive = FALSE
  /\ runTarget = ""
  /\ syncNoRebase = FALSE
  /\ dotEnv = NoEnv
  /\ script = ""
  /\ pc = "plan"
  /\ target = ""
  /\ idx = 1
  /\ inDegree = NoGraph.inDegree
  /\ dependents = NoGraph.dependents
  /\ order = <<>>
  /\ result = NoResult
  /\ trace = <<>>
  /\ linkHistory = [c \in Apis |-> NoHistory]

NextAll ==
  \/ PlanGraph
  \/ PlanKahn
  \/ PlanRest
  \/ BuildAllNext
  \/ AutoLinkDependencies
  \/ NoBuildCommand
  \/ RunBuild
  \/ AutoLinkToConsumers

SpecAll == InitAll /\ [][NextAll]_vars

\* -------------------------------------------------------------- spk remove

\* How `spk remove` of a registered repository can end: nil, an error of
\* workspace.RemoveRepo (Load or Save), or an error of os.RemoveAll.
RemoveOutcomes == {"ok", "savefailed", "removefailed"}

\* workspace.go 136-144: ws.Repos after delete(ws.Repos, name) and Save.
RemoveRepo(repos, name) == [r \in (DOMAIN repos) \ {name} |-> repos[r]]

\* RemoveAll that deletes nothing.
RemoveAll_keep(dirs, name) == dirs

\* remove.go 53: the directories left by os.RemoveAll(repoDir) returning nil.
RemoveAll(dirs, name) == dirs \ {name}

\* What is left of the contents of the directory of name once the
\* directory is deleted, or deleted in part.
Emptied(name) ==
  /\ projectFiles' = projectFiles \ {name}
  /\ built' = [m \in Models |-> IF m = name THEN {} ELSE built[m]]
  /\ slot' = [c \in Apis |-> IF c = name THEN "absent" ELSE slot[c]]
  /\ dotEnv' = [dotEnv EXCEPT ![name] = "absent"]

\* remove.go 22-63: `spk remove <name>`. The Path of every repository is
\* inside the workspace.
RemoveCmd(name) ==
  /\ pc = "idle"
  /\ target' = name
  /\ IF name \notin Registered
     THEN /\ result' = [status |-> "notfound", at |-> name]
          /\ UNCHANGED <<ws, fsVars>>
     ELSE \E out \in RemoveOutcomes :
            /\ result' = [status |-> out, at |-> name]
            /\ ws' = IF out = "savefailed" THEN ws ELSE RemoveRepo(ws, name)
            /\ \/ /\ out = "ok"
                  /\ cloned' = RemoveAll(cloned, name)
                  /\ IF name \in cloned' THEN UNCHANGED <<projectFiles, built, slot, dotEnv>>
                                          ELSE Emptied(name)
               \/ /\ out = "savefailed"
                  /\ UNCHANGED fsVars
               \/ /\ out = "removefailed"
                  /\ name \in cloned
                  /\ UNCHANGED cloned
                  /\ \/ UNCHANGED <<projectFiles, built, slot, dotEnv>>
                     \/ Emptied(name)
  /\ UNCHANGED <<flagVars, pc, idx, planVars, histVars>>

NextRemove == \E name \in Names : RemoveCmd(name)

\* `spk remove` alone, on every workspace and filesystem of Init.
SpecRemove == Init /\ [][NextRemove]_vars

\* ------------------------------------------------------------- the queries

\* npm.go 181-188: IsBuiltForCodegen, given the files present in the output
\* directory of the codegen.
IsBuiltForCodegen(files) == "package.json" \in files

\* npm.go 155-168: a call of IsBuilt on the directory of model m. The answer
\* is kept in result.
CallIsBuilt(m) ==
  /\ pc = "idle"
  /\ result' = [status |-> "IsBuilt", at |-> m, value |-> IsBuilt(built[m])]
  /\ UNCHANGED <<ws, fsVars, flagVars, pc, target, idx, planVars, histVars>>

\* part_011 432: a call of IsBuiltForCodegen on the directory of model m
\* with the codegen of its consumer in Apis, typescript-ssdk-codegen, whose
\* output directory (npm.go 176-178) is the one IsBuilt looks into.
CallIsBuiltForCodegen(m) ==
  /\ pc = "idle"
  /\ result' = [status |-> "IsBuiltForCodegen", at |-> m,
                value |-> IsBuiltForCodegen(built[m])]
  /\ UNCHANGED <<ws, fsVars, flagVars, pc, target, idx, planVars, histVars>>

\* npm.go 212-219: a call of IsLinked on consumer c and its package.
CallIsLinked(c) ==
  /\ pc = "idle"
  /\ result' = [status |-> "IsLinked", at |-> c, value |-> IsLinked(slot[c])]
  /\ UNCHANGED <<ws, fsVars, flagVars, pc, target, idx, planVars, histVars>>

NextQuery ==
  \/ \E m \in Models : CallIsBuilt(m)
  \/ \E m \in Models : CallIsBuiltForCodegen(m)
  \/ \E c \in Apis : CallIsLinked(c)

\* The queries alone, on every workspace and filesystem of Init.
SpecQuery == Init /\ [][NextQuery]_vars

\* --------------------------------------------------- the dependency graph

\* <<d, r>>: r is built after d. Explicit dependencies between registered
\* repositories, and the model->API pairs with both ends registered.
Edges(repos) ==
  {<<d, r>> \in (DOMAIN repos) \X (DOMAIN repos) :
     \/ d \in Range(repos[r].Dependencies)
     \/ r \in DOMAIN apiToModel /\ apiToModel[r] = d}

RECURSIVE Downstream(_, _)
\* The names reachable from the set S along edges E (S included).
Downstream(E, S) ==
  LET T == S \cup {e[2] : e \in {f \in E : f[1] \in S}}
  IN  IF T = S THEN S ELSE Downstream(E, T)

\* The names on a cycle of E.
OnCycle(E) ==
  {n \in {e[1] : e \in E} : n \in Downstream(E, {e[2] : e \in {f \in E : f[1] = n}})}

Acyclic(repos) == OnCycle(Edges(repos)) = {}

\* The repositories on a cycle or behind one.
Stuck(repos) == Downstream(Edges(repos), OnCycle(Edges(repos)))

\* A dependency entry that names no registered repository.
Dangling(repos) ==
  {<<r, d>> \in (DOMAIN repos) \X Names :
     d \in Range(repos[r].Dependencies) /\ d \notin DOMAIN repos}

\* The manifest without its dangling dependency entries.
Prune(repos) ==
  [r \in DOMAIN repos |->
     [repos[r] EXCEPT !.Dependencies = SelectSeq(@, LAMBDA d : d \in DOMAIN repos)]]

Pos(seq, x) == CHOOSE i \in 1..Len(seq) : seq[i] = x

\* seq lists every element of S exactly once and nothing else.
ListsOnce(seq, S) == Len(seq) = Cardinality(S) /\ Range(seq) = S

Before(seq, x, y) ==
  /\ x \in Range(seq) /\ y \in Range(seq)
  /\ Pos(seq, x) < Pos(seq, y)

\* ----------------------------------------------------------- planner claims

\* C1: for an acyclic registry the returned order lists every registered
\* repository exactly once, and every dependency or producer comes strictly
\* before its dependent or consumer.
C1_TopologicalOrder ==
  pc = "planned" =>
    LET E == Edges(ws)
    IN  OnCycle(E) = {} =>
          /\ ListsOnce(order, Registered)
          /\ \A e \in E : Before(order, e[1], e[2])

\* C1 witness: A depends on B, B depends on C, planned as C, B, A.
C1_Witness ==
  /\ pc = "planned"
  /\ Registered = {"A", "B", "C"}
  /\ ws["A"].Dependencies = <<"B">>
  /\ ws["B"].Dependencies = <<"C">>
  /\ ws["C"].Dependencies = <<>>
  /\ order = <<"C", "B", "A">>

ReferenceOrder(repos) ==
  LET it    == CHOOSE p \in Perms(DOMAIN repos) : TRUE
      g     == BuildGraph(repos, it)
      queue == CHOOSE q \in SeedQueues(g.inDegree) : TRUE
      out   == Kahn(queue, g.inDegree, g.dependents, <<>>)
  IN  CHOOSE o \in AppendMissing(out, repos) : TRUE

\* C8 as claimed: every run of the planner on the same registry returns the
\* same sequence (the one the reference run returns).
C8_Deterministic == pc = "planned" => order = ReferenceOrder(ws)

\* ------------------------------------------------ claims: linking, building

\* The positions of trace that hold a link operation.
LinkSteps == {i \in DOMAIN trace : trace[i].ev \in {"link", "DirectLink"}}

FailedBuilds ==
  {i \in DOMAIN trace : trace[i].ev = "build" /\ trace[i].res = "failed"}

\* C4: in build-all, once a build command has failed the command is over
\* and returns the error naming that repository; every cloned repository
\* before it in the order has gone through buildRepo (its build command
\* ran and exited zero, or it has none and was passed over), and no step of
\* any repository after it has been run.
C4_AbortAtFirstFailure ==
  buildAll =>
    \A i \in FailedBuilds :
      /\ i = Len(trace)
      /\ pc = "idle"
      /\ result = [status |-> "buildfailed", at |-> trace[i].repo]
      /\ idx \in DOMAIN order
      /\ order[idx] = trace[i].repo
      /\ \A j \in 1..(idx - 1) :
           order[j] \in cloned =>
             \E k \in 1..(i - 1) :
               /\ trace[k].repo = order[j]
               /\ IF getBuildCommand(order[j]) # ""
                  THEN trace[k].ev = "build" /\ trace[k].res = "ok"
                  ELSE trace[k].ev = "nocmd"
      /\ \A j \in (idx + 1)..Len(order) :
           \A k \in DOMAIN trace : trace[k].repo # order[j]

\* Build-all over five cloned repositories, the third failing: the first
\* two are built, the fourth and fifth are not attempted.
C4_Witness ==
  /\ buildAll
  /\ pc = "idle"
  /\ cloned = Registered
  /\ Len(order) = 5
  /\ idx = 3
  /\ result = [status |-> "buildfailed", at |-> order[3]]
  /\ \A j \in {1, 2} :
       \E k \in DOMAIN trace : trace[k] = Event("build", order[j], "ok", "", "", "")
  /\ \A k \in DOMAIN trace : trace[k].repo \notin {order[4], order[5]}

\* The build output of model m lacks a file IsBuilt looks for.
Unbuilt(m) == ~(BuildFiles \subseteq built[m])

\* C5: a linking phase that finds the producer of its edge without build
\* output runs no link operation, leaves every package slot as it was and
\* ends without an error.
C5_Fallback ==
  [][(\/ /\ pc = "link"
         /\ target \in Apis
         /\ apiToModel[target] \in Registered
         /\ Unbuilt(apiToModel[target])
      \/ /\ pc = "propagate"
         /\ target \in Models
         /\ Unbuilt(target))
     => /\ slot' = slot
        /\ trace' = trace
        /\ result'.status \in {"none", "ok"}]_vars

\* A build of the consumer alone, linking on, its model registered and not
\* built: the build command is the only step and the build succeeds.
C5_Witness ==
  /\ pc = "idle"
  /\ ~buildAll
  /\ LinkingOn
  /\ target \in Apis
  /\ apiToModel[target] \in Registered
  /\ Unbuilt(apiToModel[target])
  /\ result = [status |-> "ok", at |-> target]
  /\ trace = <<Event("build", target, "ok", "", "", "")>>

\* C6: from the first linking phase that leaves a consumer linked, and
\* until its producer is rebuilt, every further linking phase for that edge
\* runs no link operation and leaves the slot as the first left it, so the
\* consumer is linked, and linked to the same place, after each of them.
C6_Idempotent ==
  \A c \in Apis :
    linkHistory[c].runs >= 1 =>
      /\ linkHistory[c].steady
      /\ IsLinked(slot[c])
      /\ slot[c] = linkHistory[c].slot

\* Three linking phases in a row, the first of which linked the consumer.
C6_Witness ==
  \E c \in Apis :
    /\ linkHistory[c].runs >= 3
    /\ linkHistory[c].first = "linked"
    /\ linkHistory[c].steady
    /\ slot[c] = "local"

\* C9: a build of the consumer alone, with its model registered and built
\* and the consumer not linked when the build starts, runs the link as its
\* first step, before the build command; when the link succeeds the slot
\* is a link to the local build output from then on, so IsLinked holds when
\* the build returns.
C9_LinkBeforeBuild ==
  ( /\ ~buildAll
    /\ LinkingOn
    /\ target \in Apis
    /\ apiToModel[target] \in Registered
    /\ ~Unbuilt(apiToModel[target])
    /\ \/ pc \in {"build", "propagate"}
       \/ pc = "idle" /\ result.status \in {"ok", "buildfailed", "noscript"}
    /\ \/ slot[target] \notin {"local", "stale"}
       \/ \E i \in DOMAIN trace : trace[i].ev = "link" )
  => /\ trace # <<>>
     /\ trace[1].ev = "link"
     /\ trace[1].consumer = target
     /\ trace[1].before \notin {"local", "stale"}
     /\ \A i \in DOMAIN trace : trace[i].ev \in {"build", "nocmd"} => i = 2
     /\ trace[1].res = "ok" => slot[target] = "local" /\ IsLinked(slot[target])
     /\ pc = "idle" /\ result.status = "ok" =>
          trace[2] = Event("build", target, "ok", "", "", "")

\* `spk build <API>` has returned: it linked the consumer, then built it.
C9_Witness ==
  /\ pc = "idle"
  /\ script = ""
  /\ ~buildAll
  /\ target \in Apis
  /\ result = [status |-> "ok", at |-> target]
  /\ trace = <<Event("link", target, "ok", target, "absent", "local"),
               Event("build", target, "ok", "", "", "")>>
  /\ IsLinked(slot[target])

\* C10: every step of a build under --published (of `spk build` or of
\* `spk run`) leaves every package slot as it was and runs no link
\* operation: the only steps are the build command, or passing a
\* repository over.
C10_PublishedOnlyBuilds ==
  [][(/\ pc # "idle"
      /\ IF script = "" THEN buildPublished ELSE runPublished)
     => /\ slot' = slot
        /\ \/ trace' = trace
           \/ /\ Len(trace') = Len(trace) + 1
              /\ SubSeq(trace', 1, Len(trace)) = trace
              /\ trace'[Len(trace')].ev \in {"build", "nocmd", "skip"}]_vars

\* `spk build <API> --published` has returned with the model built and the
\* consumer not linked: the build command was the only step.
C10_Witness ==
  /\ pc = "idle"
  /\ script = ""
  /\ ~buildAll
  /\ buildPublished
  /\ ~buildNoLink
  /\ target \in Apis
  /\ apiToModel[target] \in Registered
  /\ ~Unbuilt(apiToModel[target])
  /\ slot[target] \in {"absent", "real"}
  /\ result = [status |-> "ok", at |-> target]
  /\ trace = <<Event("build", target, "ok", "", "", "")>>

\* C11: under exactly one of --no-link and --published, every step of
\* `spk build` that reads the flags (phases 1 and 3; the planner, the loop
\* of build-all and the build command read neither) is the step the same
\* state takes with the two flags exchanged. The two modes therefore run
\* the same build commands and leave the same package slots.
C11_ModesEquivalent ==
  [][(/\ script = ""
      /\ pc \in {"link", "propagate"}
      /\ buildNoLink # buildPublished)
     => \/ Phase1(Linking(buildPublished, buildNoLink))
        \/ Phase3(Linking(buildPublished, buildNoLink))]_vars

\* `spk build <API> --no-link` has returned with the model built and the
\* consumer not linked: the build command was the only step, as it is
\* under --published.
C11_Witness ==
  /\ pc = "idle"
  /\ script = ""
  /\ ~buildAll
  /\ buildNoLink
  /\ ~buildPublished
  /\ target \in Apis
  /\ apiToModel[target] \in Registered
  /\ ~Unbuilt(apiToModel[target])
  /\ slot[target] \in {"absent", "real"}
  /\ result = [status |-> "ok", at |-> target]
  /\ trace = <<Event("build", target, "ok", "", "", "")>>

\* The positions of trace that hold a link operation that failed.
FailedLinks ==
  {i \in DOMAIN trace : trace[i].ev = "link" /\ trace[i].res # "ok"}

\* C12: a link that fails in phase 1 (the consumer is the repository being
\* built) is followed by the build command of that repository; a link that
\* fails in phase 3 ends a build that is reported as succeeded; and a
\* single-target `spk build` returns an error exactly when the target is
\* not registered, its directory is missing, or its build command failed.
C12_LinkFailureNotFatal ==
  /\ \A i \in FailedLinks :
       IF trace[i].consumer = trace[i].repo
       THEN \/ i = Len(trace) /\ pc = "build" /\ target = trace[i].repo
            \/ /\ i < Len(trace)
               /\ trace[i + 1].ev = "build"
               /\ trace[i + 1].repo = trace[i].repo
       ELSE /\ result.status = "buildfailed" => result.at # trace[i].repo
            /\ ~buildAll => /\ i = Len(trace)
                            /\ pc = "idle"
                            /\ result = [status |-> "ok", at |-> trace[i].repo]
  /\ (pc = "idle" /\ script = "" /\ ~buildAll /\ target # "") =>
       /\ result.status \in {"ok", "notfound", "nodir", "buildfailed"}
       /\ result.status = "notfound" <=> target \notin Registered
       /\ result.status = "nodir" <=>
            target \in Registered /\ target \notin cloned
       /\ result.status = "buildfailed" <=>
            \E i \in FailedBuilds : trace[i].repo = target

\* `spk build <API>` has returned nil although its phase-1 link failed.
C12_Witness ==
  /\ pc = "idle"
  /\ script = ""
  /\ ~buildAll
  /\ target \in Apis
  /\ result = [status |-> "ok", at |-> target]
  /\ trace = <<Event("link", target, "pkgfail", target, "absent", "absent"),
               Event("build", target, "ok", "", "", "")>>

\* C13 as claimed: the default query and the per-codegen query both answer
\* true exactly when the output directory holds package.json and dist-types.
C13_BuiltIffBothFiles ==
  result.status \in {"IsBuilt", "IsBuiltForCodegen"} =>
    result.value = (BuildFiles \subseteq built[result.at])

\* C14: IsLinked answers true exactly when node_modules/<pkg> of the
\* consumer exists and is a symbolic link (to the local build output or to
\* anywhere else), false when it is missing or a regular file or directory;
\* the call returns no error and leaves the filesystem as it was.
C14_LinkedIffSymlink ==
  [][\A c \in Apis :
       (result'.status = "IsLinked" /\ result'.at = c) =>
         /\ result'.value =
              (slot[c] # "absent" /\ slot[c] # "real")
         /\ result'.value \in BOOLEAN
         /\ UNCHANGED fsVars]_vars

\* IsLinked has answered false for a slot that holds a regular entry.
C14_Witness ==
  /\ result.status = "IsLinked"
  /\ slot[result.at] = "real"
  /\ result.value = FALSE

\* C15 as claimed: when a linking phase skips a consumer as already linked,
\* the slot of the consumer is a link into the build output of its
\* registered producer.
C15_SkipMeansLocal ==
  \A c \in Apis :
    linkHistory[c].first = "already" => linkHistory[c].slot = "local"

\* C16: in build-all, a registered repository without a directory is
\* reported as skipped and nothing else is done for it; the loop goes on
\* with the next repository, and build-all returns nil when it has gone
\* through the whole order without a build command failing.
C16_SkipNotCloned ==
  buildAll =>
    /\ \A i \in DOMAIN trace :
         trace[i].ev = "skip" =>
           /\ trace[i].repo \in Registered \ cloned
           /\ \A k \in DOMAIN trace : k # i => trace[k].repo # trace[i].repo
    /\ \A j \in 1..(idx - 1) :
         (j \in DOMAIN order /\ order[j] \notin cloned) =>
           \E i \in DOMAIN trace :
             trace[i].ev = "skip" /\ trace[i].repo = order[j]
    /\ (pc = "idle" /\ result.status # "none") =>
         /\ result.status \in {"ok", "buildfailed"}
         /\ result.status = "ok" <=> FailedBuilds = {}
         /\ result.status = "ok" =>
              \A j \in DOMAIN order :
                \E i \in DOMAIN trace :
                  /\ trace[i].repo = order[j]
                  /\ trace[i].ev =
                       IF order[j] \notin cloned THEN "skip"
                       ELSE IF getBuildCommand(order[j]) = "" THEN "nocmd"
                       ELSE "build"

\* Build-all has returned nil after skipping a repository that is not
\* cloned and building one after it.
C16_Witness ==
  /\ buildAll
  /\ pc = "idle"
  /\ result.status = "ok"
  /\ \E i \in DOMAIN trace, k \in DOMAIN trace :
       /\ i < k
       /\ trace[i].ev = "skip"
       /\ trace[k].ev = "build"
       /\ trace[k].res = "ok"

\* C17: `spk build <name>` with a name that is not registered returns the
\* error at once: no link operation, no build command, the filesystem as
\* it was. In a single-target build of a registered target, a linking
\* phase that finds the producer (phase 1) or the consumer (phase 3) of the
\* target not registered does nothing and the build goes on without error.
C17_UnregisteredTarget ==
  [][/\ (/\ pc = "idle"
         /\ script' = ""
         /\ ~buildAll'
         /\ target' # ""
         /\ target' \notin Registered)
        => /\ pc' = "idle"
           /\ result' = [status |-> "notfound", at |-> target']
           /\ trace' = <<>>
           /\ UNCHANGED fsVars
     /\ (/\ ~buildAll
         /\ pc = "link"
         /\ target \in DOMAIN apiToModel
         /\ apiToModel[target] \notin Registered)
        => /\ pc' = "build"
           /\ trace' = trace
           /\ UNCHANGED <<fsVars, result>>
     /\ (/\ ~buildAll
         /\ pc = "propagate"
         /\ target \in DOMAIN modelToAPI
         /\ modelToAPI[target].api \notin Registered)
        => /\ pc' = "idle"
           /\ result' = [status |-> "ok", at |-> target]
           /\ trace' = trace
           /\ UNCHANGED fsVars]_vars

\* `spk build <name>` has returned the error for a name that is not
\* registered.
C17_Witness ==
  /\ pc = "idle"
  /\ script = ""
  /\ ~buildAll
  /\ target # ""
  /\ target \notin Registered
  /\ result = [status |-> "notfound", at |-> target]
  /\ trace = <<>>

LoopSteps == SelectSeq(trace, LAMBDA e : e.ev \in {"build", "nocmd", "skip"})

\* The producer of the consumer whose phase 1 is about to start, when both
\* are registered and cloned.
ProducerOfNext ==
  IF /\ buildAll
     /\ pc = "link"
     /\ target \in DOMAIN apiToModel
     /\ apiToModel[target] \in Registered \cap cloned
  THEN {apiToModel[target]}
  ELSE {}

\* The producer m has been built and its phase 3 is over.
BuiltAndPropagated(m) ==
  \E i \in DOMAIN trace :
    /\ trace[i].repo = m
    /\ trace[i].ev = "build"
    /\ trace[i].res = "ok"
    /\ \A k \in DOMAIN trace : trace[k].repo = target => i < k

C21_Permutation ==
  pc \notin {"plan", "kahn", "rest"} =>
    /\ Len(order) = Cardinality(Registered)
    /\ Range(order) = Registered
    /\ \A i \in DOMAIN order, j \in DOMAIN order :
         order[i] = order[j] => i = j
    /\ \A i \in DOMAIN LoopSteps, j \in DOMAIN LoopSteps :
         LoopSteps[i].repo = LoopSteps[j].repo => i = j

\* Build-all has gone through the three repositories of a registry with a
\* cycle.
C21_Witness ==
  /\ buildAll
  /\ pc = "idle"
  /\ result.status = "ok"
  /\ ~Acyclic(ws)
  /\ Cardinality(Registered) = 3
  /\ Len(LoopSteps) = 3

\* ------------------------------------------------------------ getDepsForRun

\* Repository names a manifest given to getDepsForRun may mention.
RunNames == {"AppModel", "AppAPI", "MobileApp", "X", "Y"}

\* Most explicit dependency entries (over all repositories) of a manifest
\* getDepsForRun is run on.
MaxRunDeps == 2

\* Calls of collect after which the evaluation of getDepsForRun is cut off
\* and reported as not having returned.
MaxCalls == 12

RECURSIVE RunManifests(_, _)
\* The manifests over the repositories reg with at most k dependency
\* entries, each naming any repository of RunNames.
RunManifests(reg, k) ==
  IF k = 0 THEN {[r \in reg |-> [BuildCommand |-> "", Dependencies |-> <<>>]]}
  ELSE LET less == RunManifests(reg, k - 1)
       IN  less \cup
           {[f EXCEPT ![r].Dependencies = Append(@, d)] :
              f \in less, r \in reg, d \in RunNames}

AllRunManifests(k) == UNION {RunManifests(reg, k) : reg \in SUBSET RunNames}

\* part_011 29-37: var modelConsumers.
modelConsumers ==
  [AppModel |->
     <<[consumer |-> "AppAPI", pkg |-> "@spark-rewards/sra-sdk",
        codegen |-> "typescript-ssdk-codegen"],
       [consumer |-> "MobileApp", pkg |-> "@spark-rewards/sra-client",
        codegen |-> "typescript-client-codegen"]>>,
   BusinessModel |->
     <<[consumer |-> "BusinessAPI", pkg |-> "@spark-rewards/srw-sdk",
        codegen |-> "typescript-ssdk-codegen"]>>]

\* The names of the consumers modelConsumers lists under model m.
ConsumersOf(m) == {modelConsumers[m][k].consumer : k \in DOMAIN modelConsumers[m]}

\* part_011 40-49: the model findModelForConsumer returns for consumer, ""
\* when it returns a nil mapping. No consumer is listed under two models, so
\* the visiting order of its loop over the table does not show.
findModelForConsumer(consumer) ==
  IF \E m \in DOMAIN modelConsumers : consumer \in ConsumersOf(m)
  THEN CHOOSE m \in DOMAIN modelConsumers : consumer \in ConsumersOf(m)
  ELSE ""

\* The locals of getDepsForRun before collect(name): deps, seen, and the
\* number of calls of collect so far; cut is set when the evaluation is cut
\* off at MaxCalls.
NoDeps == [deps |-> <<>>, seen |-> {}, calls |-> 0, cut |-> FALSE]

RECURSIVE collect(_, _, _)
RECURSIVE collectDeps(_, _, _, _)
RECURSIVE collectConsumers(_, _, _)
RECURSIVE collectDepsConsumers(_, _, _, _)

\* collect without the seen map.
collect_unseen(repos, n, st) ==
  IF st.cut \/ st.calls >= MaxCalls THEN [st EXCEPT !.cut = TRUE]
  ELSE LET s1 == [st EXCEPT !.seen = @ \cup {n}, !.calls = @ + 1]
           s2 == IF n \in DOMAIN apiToModel /\ apiToModel[n] \in DOMAIN repos
                 THEN [collect(repos, apiToModel[n], s1)
                         EXCEPT !.deps = Append(@, apiToModel[n])]
                 ELSE s1
       IN  IF n \in DOMAIN repos
           THEN collectDeps(repos, repos[n].Dependencies, 1, s2)
           ELSE s2

\* run.go 419-444: the closure collect, called on n with the locals st.
collect(repos, n, st) ==
  IF st.cut \/ st.calls >= MaxCalls THEN [st EXCEPT !.cut = TRUE]
  ELSE IF n \in st.seen THEN [st EXCEPT !.calls = @ + 1]
  ELSE LET s1 == [st EXCEPT !.seen = @ \cup {n}, !.calls = @ + 1]
           s2 == IF n \in DOMAIN apiToModel /\ apiToModel[n] \in DOMAIN repos
                 THEN [collect(repos, apiToModel[n], s1)
                         EXCEPT !.deps = Append(@, apiToModel[n])]
                 ELSE s1
       IN  IF n \in DOMAIN repos
           THEN collectDeps(repos, repos[n].Dependencies, 1, s2)
           ELSE s2

\* collectDeps that appends each registered dependency without descending
\* into it.
collectDeps_shallow(repos, ds, i, st) ==
  IF i > Len(ds) THEN st
  ELSE IF ds[i] \notin DOMAIN repos THEN collectDeps(repos, ds, i + 1, st)
  ELSE collectDeps(repos, ds, i + 1,
                   IF ds[i] \in Range(st.deps) THEN st
                   ELSE [st EXCEPT !.deps = Append(@, ds[i])])

\* run.go 434-442: the loop of collect over repo.Dependencies, from entry i.
collectDeps(repos, ds, i, st) ==
  IF i > Len(ds) THEN st
  ELSE IF ds[i] \notin DOMAIN repos THEN collectDeps(repos, ds, i + 1, st)
  ELSE LET c == collect(repos, ds[i], st)
       IN  collectDeps(repos, ds, i + 1,
                       IF ds[i] \in Range(c.deps) THEN c
                       ELSE [c EXCEPT !.deps = Append(@, ds[i])])

\* part_011 540-567: the closure collect of the multi-consumer run.go.
collectConsumers(repos, n, st) ==
  IF st.cut \/ st.calls >= MaxCalls THEN [st EXCEPT !.cut = TRUE]
  ELSE IF n \in st.seen THEN [st EXCEPT !.calls = @ + 1]
  ELSE LET s1 == [st EXCEPT !.seen = @ \cup {n}, !.calls = @ + 1]
           m  == findModelForConsumer(n)
           s2 == IF m # "" /\ m \in DOMAIN repos
                 THEN LET c == collectConsumers(repos, m, s1)
                      IN  IF m \in Range(c.deps) THEN c
                          ELSE [c EXCEPT !.deps = Append(@, m)]
                 ELSE s1
       IN  IF n \in DOMAIN repos
           THEN collectDepsConsumers(repos, repos[n].Dependencies, 1, s2)
           ELSE s2

\* part_011 556-565: the loop of collect over repo.Dependencies.
collectDepsConsumers(repos, ds, i, st) ==
  IF i > Len(ds) THEN st
  ELSE IF ds[i] \notin DOMAIN repos
  THEN collectDepsConsumers(repos, ds, i + 1, st)
  ELSE LET c == collectConsumers(repos, ds[i], st)
       IN  collectDepsConsumers(repos, ds, i + 1,
                                IF ds[i] \in Range(c.deps) THEN c
                                ELSE [c EXCEPT !.deps = Append(@, ds[i])])

\* run.go 446-454 and part_011 569-577: the entries of deps other than name.
WithoutName(deps, name) == SelectSeq(deps, LAMBDA d : d # name)

\* run.go 415-455: getDepsForRun; cut tells that collect did not return
\* within MaxCalls calls.
getDepsForRun(repos, name) ==
  LET st == collect(repos, name, NoDeps)
  IN  [deps |-> WithoutName(st.deps, name), cut |-> st.cut]

\* part_011 536-578: getDepsForRun of the multi-consumer run.go.
getDepsForRunConsumers(repos, name) ==
  LET st == collectConsumers(repos, name, NoDeps)
  IN  [deps |-> WithoutName(st.deps, name), cut |-> st.cut]

\* run.go 389: buildRecursivelyRun calls getDepsForRun on name.
CallGetDepsForRun(name) ==
  /\ pc = "idle"
  /\ LET r == getDepsForRun(ws, name)
     IN  /\ order' = r.deps
         /\ result' = [status |-> IF r.cut THEN "cut" ELSE "deps",
                       at |-> "run.go"]
  /\ target' = name
  /\ pc' = "deps"
  /\ UNCHANGED <<ws, fsVars, flagVars, idx, inDegree, dependents, histVars>>

\* part_011 510: buildRecursivelyRun calls getDepsForRun on name.
CallGetDepsForRunConsumers(name) ==
  /\ pc = "idle"
  /\ LET r == getDepsForRunConsumers(ws, name)
     IN  /\ order' = r.deps
         /\ result' = [status |-> IF r.cut THEN "cut" ELSE "deps",
                       at |-> "part_011"]
  /\ target' = name
  /\ pc' = "deps"
  /\ UNCHANGED <<ws, fsVars, flagVars, idx, inDegree, dependents, histVars>>

\* Every manifest over RunNames with at most MaxRunDeps dependency entries,
\* cycles and entries naming unregistered repositories included.
InitDeps ==
  /\ ws \in AllRunManifests(MaxRunDeps)
  /\ cloned = Registered
  /\ projectFiles = cloned
  /\ built = [m \in Models |-> {}]
  /\ slot = [c \in Apis |-> "absent"]
  /\ buildAll = FALSE
  /\ buildNoLink = FALSE
  /\ buildPublished = FALSE
  /\ runPublished = FALSE
  /\ runRecursive = FALSE
  /\ runTarget = ""
  /\ syncNoRebase = FALSE
  /\ dotEnv = NoEnv
  /\ script = "build"
  /\ pc = "idle"
  /\ target = ""
  /\ idx = 1
  /\ inDegree = NoGraph.inDegree
  /\ dependents = NoGraph.dependents
  /\ order = <<>>
  /\ result = NoResult
  /\ trace = <<>>
  /\ linkHistory = [c \in Apis |-> NoHistory]

NextDeps ==
  \/ \E name \in RunNames : CallGetDepsForRun(name)
  \/ \E name \in RunNames : CallGetDepsForRunConsumers(name)

SpecDeps == InitDeps /\ [][NextDeps]_vars

\* A call of getDepsForRun has returned.
Returned == pc = "deps" /\ result.status = "deps"

\* C22: the list getDepsForRun returns names no repository twice, whatever
\* the workspace and the target.
C22_NoRepeats ==
  Returned =>
    \A i \in DOMAIN order, j \in DOMAIN order : order[i] = order[j] => i = j

\* The producer model the version of getDepsForRun last called knows for n,
\* "" for none.
RunProducer(n) ==
  IF result.at = "run.go"
  THEN IF n \in DOMAIN apiToModel THEN apiToModel[n] ELSE ""
  ELSE findModelForConsumer(n)

\* The registered repositories n needs: its producer model and its explicit
\* dependencies.
RunNeeds(n) ==
  (IF RunProducer(n) \in Registered THEN {RunProducer(n)} ELSE {})
    \cup (IF n \in Registered
          THEN Range(ws[n].Dependencies) \cap Registered
          ELSE {})

RECURSIVE RunClosure(_)
\* S and everything needed, directly or not, by a member of S.
RunClosure(S) ==
  LET more == S \cup UNION {RunNeeds(n) : n \in S}
  IN  IF more = S THEN S ELSE RunClosure(more)

\* The registered repositories reachable from n in one step or more.
RunReach(n) == RunClosure(RunNeeds(n))

\* No repository of the workspace, nor the target, needs itself.
RunAcyclic == \A n \in Registered \cup {target} : n \notin RunReach(n)

\* C23: on a workspace without a cycle getDepsForRun returns the registered
\* repositories reachable from the target through explicit dependencies and
\* producer edges, the target not among them, each after every registered
\* dependency and producer of its own.
C23_ReachableInOrder ==
  (Returned /\ RunAcyclic) =>
    /\ Range(order) = RunReach(target)
    /\ target \notin Range(order)
    /\ \A i \in DOMAIN order : \A e \in RunNeeds(order[i]) :
         \E j \in 1..(i - 1) : order[j] = e

\* The target needs a repository that needs another, registered one, and
\* there is no cycle.
C23_Witness ==
  /\ Returned
  /\ RunAcyclic
  /\ Len(order) >= 2
  /\ \E n \in RunNeeds(target) : RunNeeds(n) # {}

\* C24: getDepsForRun returns on every workspace, one whose dependencies
\* form a cycle included, and the list it returns does not name the target.
C24_ReturnsWithoutTarget ==
  pc = "deps" =>
    /\ result.status = "deps"
    /\ target \notin Range(order)

\* getDepsForRun has returned for a target on a cycle of explicit
\* dependencies: one that depends on itself, or one of two repositories that
\* depend on each other.
C24_Witness ==
  /\ Returned
  /\ target \in Registered
  /\ \/ target \in Range(ws[target].Dependencies)
     \/ \E y \in Registered \ {target} :
          /\ y \in Range(ws[target].Dependencies)
          /\ target \in Range(ws[y].Dependencies)
          /\ order = <<y>>

\* ------------------------------------------------------ buildRecursivelyRun

\* The repositories a workspace `spk run build -r` is run on may register,
\* and the most explicit dependency entries it has.
RecNames == {"AppModel", "AppAPI", "A"}
MaxRecDeps == 2

\* run.go 73-91 and 388-389: `spk run build -r` from the directory cwd;
\* buildRecursivelyRun starts by calling getDepsForRun.
RunRecursiveCmd(published, cwd) ==
  /\ pc = "idle"
  /\ buildAll' = FALSE
  /\ buildNoLink' = FALSE
  /\ buildPublished' = FALSE
  /\ runPublished' = published
  /\ runRecursive' = TRUE
  /\ syncNoRebase' = FALSE
  /\ script' = "build"
  /\ trace' = <<>>
  /\ idx' = 1
  /\ target' = ""
  /\ IF cwd \in Registered \cap cloned
     THEN /\ pc' = "deps"
          /\ runTarget' = cwd
          /\ order' = getDepsForRun(ws, cwd).deps
          /\ result' = NoResult
     ELSE /\ pc' = "idle"
          /\ runTarget' = ""
          /\ order' = <<>>
          /\ result' = [status |-> "notinrepo", at |-> ""]
  /\ UNCHANGED <<ws, fsVars, inDegree, dependents, linkHistory>>

\* run.go 391-412: one turn of the loop over deps, or after it the call of
\* runScript on the target.
BuildRecursivelyNext ==
  /\ pc = "deps"
  /\ \/ /\ idx <= Len(order)
        /\ order[idx] \notin Registered \cap cloned
        /\ trace' = IF order[idx] \in Registered
                    THEN Append(trace, Event("skip", order[idx], "not cloned",
                                              "", "", ""))
                    ELSE trace
        /\ idx' = idx + 1
        /\ UNCHANGED <<pc, target>>
     \/ /\ idx <= Len(order)
        /\ order[idx] \in Registered \cap cloned
        /\ target' = order[idx]
        /\ pc' = "link"
        /\ UNCHANGED <<idx, trace>>
     \/ /\ idx > Len(order)
        /\ target' = runTarget
        /\ pc' = "link"
        /\ UNCHANGED <<idx, trace>>
  /\ UNCHANGED <<ws, fsVars, flagVars, planVars, result, linkHistory>>

\* `spk run build -r` on every workspace over RecNames with at most
\* MaxRecDeps dependency entries; AppModel possibly not cloned, A possibly
\* without any project file, nothing is built or linked; --published is
\* not given.
InitRec ==
  /\ ws \in AllManifests(MaxRecDeps)
  /\ Registered \subseteq RecNames
  /\ \E r \in {"AppModel", ""} : cloned = Registered \ {r}
  /\ \E r \in {"A", ""} : projectFiles = cloned \ {r}
  /\ built = [m \in Models |-> {}]
  /\ slot = [c \in Apis |-> "absent"]
  /\ buildAll = FALSE
  /\ buildNoLink = FALSE
  /\ buildPublished = FALSE
  /\ runPublished = FALSE
  /\ runRecursive = FALSE
  /\ runTarget = ""
  /\ syncNoRebase = FALSE
  /\ dotEnv = NoEnv
  /\ script = ""
  /\ pc = "idle"
  /\ target = ""
  /\ idx = 1
  /\ inDegree = NoGraph.inDegree
  /\ dependents = NoGraph.dependents
  /\ order = <<>>
  /\ result = NoResult
  /\ trace = <<>>
  /\ linkHistory = [c \in Apis |-> NoHistory]

NextRec ==
  \/ \E cwd \in RecNames \cup {""} : RunRecursiveCmd(FALSE, cwd)
  \/ BuildRecursivelyNext
  \/ AutoLinkDependencies
  \/ NoBuildCommand
  \/ RunBuild
  \/ AutoLinkToConsumers

SpecRec == InitRec /\ [][NextRec]_vars

\* The positions of trace at which the build command of repository n ran.
BuildsOf(n) ==
  {i \in DOMAIN trace : trace[i].ev = "build" /\ trace[i].repo = n}

\* C25: in a recursive build the build command of the current repository
\* runs only after the build command of every cloned dependency has run and
\* succeeded, no build command runs after it, and nothing at all runs after
\* a build command that failed or a dependency without a build command.
C25_DependenciesFirst ==
  runRecursive =>
    /\ \A i \in BuildsOf(runTarget) :
         /\ \A d \in Range(order) \cap cloned :
              \E j \in 1..(i - 1) :
                /\ j \in BuildsOf(d)
                /\ trace[j].res = "ok"
         /\ \A j \in (i + 1)..Len(trace) : trace[j].ev # "build"
    /\ \A i \in DOMAIN trace :
         (trace[i].res = "failed" \/ trace[i].ev = "nocmd") => i = Len(trace)
    /\ (pc = "idle" /\ result.status \in {"buildfailed", "noscript"}
          /\ result.at # runTarget) => BuildsOf(runTarget) = {}

\* A recursive build has built two dependencies and then the current
\* repository.
C25_Witness ==
  /\ runRecursive
  /\ pc = "idle"
  /\ result.status = "ok"
  /\ Cardinality(Range(order) \cap cloned) >= 2
  /\ BuildsOf(runTarget) # {}

\* ------------------------------------- autoLinkConsumers, multi-consumer

\* The repositories a workspace of the multi-consumer propagation registers.
ConsumerNames == {"AppModel", "AppAPI", "MobileApp"}

\* The codegen output directories of a model.
Codegens == {"typescript-ssdk-codegen", "typescript-client-codegen"}

\* part_011 470-486: what one turn of the loop does for mapping.
ConsumerDecision(mapping) ==
  IF mapping.consumer \notin Registered THEN "unregistered"
  ELSE IF mapping.consumer \notin cloned THEN "notcloned"
  ELSE IF ~IsBuiltForCodegen(built[mapping.codegen]) THEN "unbuilt"
  ELSE IF IsLinked(slot[mapping.consumer]) THEN "already"
  ELSE "link"

\* NextConsumer that leaves the loop when a link attempt failed.
NextConsumer_stop(i, outcome) ==
  IF outcome \in {"linkfail", "pkgfail"} THEN Len(modelConsumers[target]) + 1
  ELSE i + 1

\* part_011 470-504: every path through the loop body ends in `continue` or
\* at the end of the body; the loop goes on to the next mapping.
NextConsumer(i, outcome) == i + 1

\* part_011 462-468: autoLinkConsumers is called for repository name.
CallAutoLinkConsumers(name) ==
  /\ pc = "idle"
  /\ name \in Registered \cap cloned
  /\ target' = name
  /\ idx' = 1
  /\ trace' = <<>>
  /\ IF name \in DOMAIN modelConsumers
     THEN /\ pc' = "consumers"
          /\ result' = NoResult
     ELSE /\ pc' = "idle"
          /\ result' = [status |-> "ok", at |-> name]
  /\ UNCHANGED <<ws, fsVars, flagVars, planVars, linkHistory>>

\* part_011 470-506: one turn of the loop over the consumers of the model,
\* or after it `return nil`.
ConsumerNext ==
  /\ pc = "consumers"
  /\ \/ /\ idx > Len(modelConsumers[target])
        /\ pc' = "idle"
        /\ result' = [status |-> "ok", at |-> target]
        /\ UNCHANGED <<idx, slot, trace>>
     \/ /\ idx <= Len(modelConsumers[target])
        /\ ConsumerDecision(modelConsumers[target][idx]) # "link"
        /\ idx' = NextConsumer(idx, ConsumerDecision(modelConsumers[target][idx]))
        /\ trace' = Append(trace,
                           Event("skip", target,
                                 ConsumerDecision(modelConsumers[target][idx]),
                                 modelConsumers[target][idx].consumer, "", ""))
        /\ UNCHANGED <<pc, result, slot>>
     \/ /\ idx <= Len(modelConsumers[target])
        /\ ConsumerDecision(modelConsumers[target][idx]) = "link"
        /\ \E out \in LinkOutcomes :
             LET c     == modelConsumers[target][idx].consumer
                 after == NpmLink(slot[c], out)
             IN  /\ slot' = [slot EXCEPT ![c] = after]
                 /\ trace' = Append(trace,
                                    Event("link", target, out, c, slot[c], after))
                 /\ idx' = NextConsumer(idx, out)
        /\ UNCHANGED <<pc, result>>
  /\ UNCHANGED <<ws, cloned, projectFiles, dotEnv, built, flagVars, target, planVars,
                 linkHistory>>

\* Every workspace over ConsumerNames that registers AppModel, with AppModel
\* cloned, and every state of the two codegen outputs and of the two
\* consumers' package slots.
InitConsumers ==
  /\ ws \in AllRunManifests(0)
  /\ "AppModel" \in Registered
  /\ Registered \subseteq ConsumerNames
  /\ cloned \in SUBSET Registered
  /\ "AppModel" \in cloned
  /\ projectFiles = cloned
  /\ built \in [Codegens -> SUBSET BuildFiles]
  /\ slot \in [ConsumersOf("AppModel") -> SlotStates]
  /\ \A c \in ConsumersOf("AppModel") : c \notin cloned => slot[c] = "absent"
  /\ buildAll = FALSE
  /\ buildNoLink = FALSE
  /\ buildPublished = FALSE
  /\ runPublished = FALSE
  /\ runRecursive = FALSE
  /\ runTarget = ""
  /\ syncNoRebase = FALSE
  /\ dotEnv = NoEnv
  /\ script = "build"
  /\ pc = "idle"
  /\ target = ""
  /\ idx = 1
  /\ inDegree = NoGraph.inDegree
  /\ dependents = NoGraph.dependents
  /\ order = <<>>
  /\ result = NoResult
  /\ trace = <<>>
  /\ linkHistory = [c \in Apis |-> NoHistory]

NextConsumers ==
  \/ \E name \in ConsumerNames : CallAutoLinkConsumers(name)
  \/ ConsumerNext

SpecConsumers == InitConsumers /\ [][NextConsumers]_vars

\* The positions of trace at which a link of consumer c was attempted.
AttemptsOf(c) ==
  {i \in DOMAIN trace : trace[i].ev = "link" /\ trace[i].consumer = c}

\* C26: when the multi-consumer propagation returns, it returns nil, and
\* every consumer of the model that is registered, cloned, has its codegen
\* output built and was not linked has had one link attempt, whatever
\* happened to the consumers before it.
C26_EveryConsumerTried ==
  (pc = "idle" /\ target \in DOMAIN modelConsumers /\ result.status # "none") =>
    /\ result.status = "ok"
    /\ \A k \in DOMAIN modelConsumers[target] :
         LET mapping == modelConsumers[target][k]
         IN  /\ Cardinality(AttemptsOf(mapping.consumer)) <= 1
             /\ (/\ mapping.consumer \in Registered \cap cloned
                 /\ IsBuiltForCodegen(built[mapping.codegen])
                 /\ AttemptsOf(mapping.consumer) = {})
                  => IsLinked(slot[mapping.consumer])
             /\ \A i \in AttemptsOf(mapping.consumer) :
                  ~IsLinked(trace[i].before)

\* The link of the first consumer failed and the second consumer was linked
\* all the same.
C26_Witness ==
  /\ pc = "idle"
  /\ target = "AppModel"
  /\ result.status = "ok"
  /\ \E i \in AttemptsOf("AppAPI") : trace[i].res # "ok"
  /\ \E i \in AttemptsOf("MobileApp") : trace[i].res = "ok"

\* ------------------------------------------- spk sync, auto-stash variant

\* How a git command run by spk can end.
GitOutcomes == {"ok", "failed"}

\* An external git command, or the return of syncRepoInternal, in trace.
Git(ev, res) == Event(ev, target, res, "", "", "")

\* part_008 239: the local isDirty, the answer git.IsDirty gave.
isDirty == trace # <<>> /\ trace[1].ev = "status" /\ trace[1].res = "dirty"

\* syncRepoInternal returns status to the command.
SyncReturn(tr, status) ==
  /\ trace' = Append(tr, Git("return", status))
  /\ pc' = "idle"
  /\ result' = [status |-> status, at |-> target]

\* PopIfDirty that leaves the stash alone.
PopIfDirty_never(tr, out) == tr

\* part_008 247-249, 256-258 and 262-264: `if isDirty { git.StashPop }`,
\* whose error is dropped.
PopIfDirty(tr, out) == IF isDirty THEN Append(tr, Git("pop", out)) ELSE tr

\* part_008 232-237: `spk sync <name>` reaches syncRepoInternal; with
\* --no-rebase it returns what git pull returns.
SyncRepoStash(name, noRebase) ==
  /\ pc = "idle"
  /\ name \in Registered \cap cloned
  /\ syncNoRebase' = noRebase
  /\ target' = name
  /\ IF noRebase
     THEN \E out \in GitOutcomes :
            /\ trace' = <<Event("pull", name, out, "", "", ""),
                          Event("return", name,
                                IF out = "ok" THEN "ok" ELSE "pullfailed",
                                "", "", "")>>
            /\ pc' = "idle"
            /\ result' = [status |-> IF out = "ok" THEN "ok" ELSE "pullfailed",
                          at |-> name]
     ELSE /\ trace' = <<>>
          /\ pc' = "isdirty"
          /\ result' = NoResult
  /\ UNCHANGED <<ws, fsVars, buildAll, buildNoLink, buildPublished,
                 runPublished, runRecursive, runTarget, script, idx, planVars,
                 linkHistory>>

\* part_008 239-244: git.IsDirty and, for a dirty repository, git.Stash.
StashIfDirty ==
  /\ pc = "isdirty"
  /\ \/ /\ trace' = <<Git("status", "clean")>>
        /\ pc' = "fetch"
        /\ UNCHANGED result
     \/ /\ trace' = <<Git("status", "dirty"), Git("stash", "ok")>>
        /\ pc' = "fetch"
        /\ UNCHANGED result
     \/ SyncReturn(<<Git("status", "dirty"), Git("stash", "failed")>>,
                   "stashfailed")
  /\ UNCHANGED <<ws, fsVars, flagVars, target, idx, planVars, linkHistory>>

\* part_008 246-251: git.Fetch.
FetchStash ==
  /\ pc = "fetch"
  /\ \/ /\ trace' = Append(trace, Git("fetch", "ok"))
        /\ pc' = "rebase"
        /\ UNCHANGED result
     \/ \E out \in GitOutcomes :
          SyncReturn(PopIfDirty(Append(trace, Git("fetch", "failed")), out),
                     "fetchfailed")
  /\ UNCHANGED <<ws, fsVars, flagVars, target, idx, planVars, linkHistory>>

\* part_008 253-266: git.Rebase, git.RebaseAbort when it failed, and the
\* return.
RebaseStash ==
  /\ pc = "rebase"
  /\ \E out \in GitOutcomes :
       \/ SyncReturn(PopIfDirty(Append(trace, Git("rebase", "ok")), out), "ok")
       \/ \E aborted \in GitOutcomes :
            SyncReturn(PopIfDirty(Append(Append(trace, Git("rebase", "failed")),
                                         Git("abort", aborted)), out),
                       "rebasefailed")
  /\ UNCHANGED <<ws, fsVars, flagVars, target, idx, planVars, linkHistory>>

\* Every workspace without explicit dependencies, at most one of its
\* repositories not cloned.
InitStash ==
  /\ ws \in AllManifests(0)
  /\ \E r \in {"AppModel", "A", ""} : cloned = Registered \ {r}
  /\ projectFiles = cloned
  /\ built = [m \in Models |-> {}]
  /\ slot = [c \in Apis |-> "absent"]
  /\ buildAll = FALSE
  /\ buildNoLink = FALSE
  /\ buildPublished = FALSE
  /\ runPublished = FALSE
  /\ runRecursive = FALSE
  /\ runTarget = ""
  /\ syncNoRebase = FALSE
  /\ dotEnv = NoEnv
  /\ script = ""
  /\ pc = "idle"
  /\ target = ""
  /\ idx = 1
  /\ inDegree = NoGraph.inDegree
  /\ dependents = NoGraph.dependents
  /\ order = <<>>
  /\ result = NoResult
  /\ trace = <<>>
  /\ linkHistory = [c \in Apis |-> NoHistory]

NextStash ==
  \/ \E name \in Names, noRebase \in BOOLEAN : SyncRepoStash(name, noRebase)
  \/ StashIfDirty
  \/ FetchStash
  \/ RebaseStash

SpecStash == InitStash /\ [][NextStash]_vars

\* The positions of trace at which git command ev ran.
GitCalls(ev) == {i \in DOMAIN trace : trace[i].ev = ev}

\* C27: when the auto-stash syncRepoInternal returns, stash pop has run
\* exactly once, before the return and after any rebase abort, if the
\* repository was dirty and the stash push succeeded, and has not run at all
\* otherwise; it never runs twice.
C27_StashBalanced ==
  /\ Cardinality(GitCalls("pop")) <= 1
  /\ GitCalls("pop") # {} => \E i \in GitCalls("stash") : trace[i].res = "ok"
  /\ (pc = "idle" /\ result.status # "none") =>
       /\ GitCalls("return") = {Len(trace)}
       /\ IF isDirty /\ \E i \in GitCalls("stash") : trace[i].res = "ok"
          THEN /\ GitCalls("pop") = {Len(trace) - 1}
               /\ \A i \in GitCalls("abort") : i < Len(trace) - 1
          ELSE GitCalls("pop") = {}

\* The repository was dirty, the stash push succeeded, the rebase failed and
\* syncRepoInternal has returned.
C27_Witness ==
  /\ pc = "idle"
  /\ result.status = "rebasefailed"
  /\ isDirty
  /\ GitCalls("abort") # {}
  /\ GitCalls("pop") # {}

\* ---------------------------------------------- spk sync, no-stash variant

\* Most repositories of a workspace `spk sync` is run on.
MaxSyncRepos == 2

\* sync.go 340-344: the registered names in the order sort.Strings gives.
SortStrings(S) ==
  SelectSeq(<<"A", "AppAPI", "AppModel", "B", "C">>, LAMBDA n : n \in S)

\* The working tree of a repository as the command finds it.
TreeStates == {"clean", "dirty"}

\* part_003 141-147 on 29-37: what `git status --short` can give for a
\* working tree: its state, or an error, which git.IsDirty turns into false.
StatusOutcomes(tree) == {tree, "failed"}

\* syncRepoInternal returns status: to the loop of syncAllRepos (sync.go
\* 375-380), which goes on, or to the command.
SyncInternalReturn(tr, status) ==
  /\ trace' = Append(tr, Git("return", status))
  /\ IF order # <<>>
     THEN /\ pc' = "syncloop"
          /\ idx' = idx + 1
          /\ UNCHANGED result
     ELSE /\ pc' = "idle"
          /\ result' = [status |-> status, at |-> target]
          /\ UNCHANGED idx

\* sync.go 387-392: syncRepoInternal is entered for repository name after
\* the events tr; with --no-rebase it returns what git pull returns.
SyncInternalEnter(tr, name, noRebase) ==
  IF noRebase
  THEN \E out \in GitOutcomes :
         /\ trace' = tr \o <<Event("pull", name, out, "", "", ""),
                             Event("return", name,
                                   IF out = "ok" THEN "ok" ELSE "pullfailed",
                                   "", "", "")>>
         /\ IF order # <<>>
            THEN /\ pc' = "syncloop"
                 /\ idx' = idx + 1
                 /\ UNCHANGED result
            ELSE /\ pc' = "idle"
                 /\ result' = [status |-> IF out = "ok" THEN "ok"
                                          ELSE "pullfailed",
                               at |-> name]
                 /\ UNCHANGED idx
  ELSE /\ trace' = tr
       /\ pc' = "isdirty"
       /\ UNCHANGED <<idx, result>>

\* sync.go 319-331: `spk sync <name>`, the working tree of the repository
\* being in state tree.
SyncRepo(name, tree, noRebase) ==
  /\ pc = "idle"
  /\ syncNoRebase' = noRebase
  /\ order' = <<>>
  /\ target' = name
  /\ IF name \notin Registered
     THEN /\ pc' = "idle"
          /\ result' = [status |-> "notfound", at |-> name]
          /\ trace' = <<>>
          /\ UNCHANGED idx
     ELSE IF name \notin cloned
     THEN /\ pc' = "idle"
          /\ result' = [status |-> "missing", at |-> name]
          /\ trace' = <<>>
          /\ UNCHANGED idx
     ELSE /\ order' = <<>>
          /\ SyncInternalEnter(<<Event("tree", name, tree, "", "", "")>>,
                               name, noRebase)
  /\ UNCHANGED <<ws, fsVars, buildAll, buildNoLink, buildPublished,
                 runPublished, runRecursive, runTarget, script, inDegree,
                 dependents, linkHistory>>

\* sync.go 333-345: `spk sync` without a name.
SyncAllRepos(noRebase) ==
  /\ pc = "idle"
  /\ syncNoRebase' = noRebase
  /\ order' = SortStrings(Registered)
  /\ target' = ""
  /\ idx' = 1
  /\ trace' = <<>>
  /\ IF Registered = {}
     THEN /\ pc' = "idle"
          /\ result' = [status |-> "ok", at |-> ""]
     ELSE /\ pc' = "syncloop"
          /\ result' = NoResult
  /\ UNCHANGED <<ws, fsVars, buildAll, buildNoLink, buildPublished,
                 runPublished, runRecursive, runTarget, script, inDegree,
                 dependents, linkHistory>>

\* sync.go 346-384: one turn of the loop of syncAllRepos up to the call of
\* syncRepoInternal, the working tree of the repository being in state tree,
\* or after the loop `return nil`.
SyncAllNext ==
  /\ pc = "syncloop"
  /\ \/ /\ idx > Len(order)
        /\ pc' = "idle"
        /\ result' = [status |-> "ok", at |-> ""]
        /\ UNCHANGED <<idx, target, trace>>
     \/ /\ idx <= Len(order)
        /\ order[idx] \notin cloned
        /\ trace' = Append(trace, Event("skip", order[idx], "not cloned",
                                         "", "", ""))
        /\ idx' = idx + 1
        /\ UNCHANGED <<pc, target, result>>
     \/ /\ idx <= Len(order)
        /\ order[idx] \in cloned
        /\ target' = order[idx]
        /\ \E tree \in TreeStates : \E st \in StatusOutcomes(tree) :
             LET seen == trace \o <<Event("tree", order[idx], tree, "", "", ""),
                                    Event("status", order[idx], st, "", "", "")>>
             IN  IF st = "dirty"
                 THEN /\ \E out \in GitOutcomes :
                           trace' = Append(seen, Event("fetch", order[idx], out,
                                                       "", "", ""))
                      /\ idx' = idx + 1
                      /\ UNCHANGED <<pc, result>>
                 ELSE SyncInternalEnter(seen, order[idx], syncNoRebase)
  /\ UNCHANGED <<ws, fsVars, flagVars, planVars, linkHistory>>

\* The state of the working tree syncRepoInternal was entered with.
Tree ==
  trace[CHOOSE i \in GitCalls("tree") : \A j \in GitCalls("tree") : j <= i].res

\* sync.go 394-397: git.IsDirty; a dirty repository is refused.
RefuseIfDirty ==
  /\ pc = "isdirty"
  /\ \E st \in StatusOutcomes(Tree) :
       IF st = "dirty"
       THEN SyncInternalReturn(Append(trace, Git("status", st)), "dirty")
       ELSE /\ trace' = Append(trace, Git("status", st))
            /\ pc' = "fetch"
            /\ UNCHANGED <<idx, result>>
  /\ UNCHANGED <<ws, fsVars, flagVars, target, planVars, linkHistory>>

\* sync.go 399-401: git.FetchQuiet.
FetchQuiet ==
  /\ pc = "fetch"
  /\ \/ /\ trace' = Append(trace, Git("fetch", "ok"))
        /\ pc' = "rebase"
        /\ UNCHANGED <<idx, result>>
     \/ SyncInternalReturn(Append(trace, Git("fetch", "failed")), "fetchfailed")
  /\ UNCHANGED <<ws, fsVars, flagVars, target, planVars, linkHistory>>

\* sync.go 403-409: git.RebaseQuiet, git.RebaseAbortQuiet when it failed,
\* and the return.
RebaseQuiet ==
  /\ pc = "rebase"
  /\ \/ SyncInternalReturn(Append(trace, Git("rebase", "ok")), "ok")
     \/ \E aborted \in GitOutcomes :
          SyncInternalReturn(Append(Append(trace, Git("rebase", "failed")),
                                    Git("abort", aborted)),
                             "rebasefailed")
  /\ UNCHANGED <<ws, fsVars, flagVars, target, planVars, linkHistory>>

\* Every workspace of at most MaxSyncRepos repositories, at most one of them
\* not cloned.
InitSync ==
  /\ ws \in AllManifests(0)
  /\ Cardinality(Registered) <= MaxSyncRepos
  /\ \E r \in {"AppModel", "A", ""} : cloned = Registered \ {r}
  /\ projectFiles = cloned
  /\ built = [m \in Models |-> {}]
  /\ slot = [c \in Apis |-> "absent"]
  /\ buildAll = FALSE
  /\ buildNoLink = FALSE
  /\ buildPublished = FALSE
  /\ runPublished = FALSE
  /\ runRecursive = FALSE
  /\ runTarget = ""
  /\ syncNoRebase = FALSE
  /\ dotEnv = NoEnv
  /\ script = ""
  /\ pc = "idle"
  /\ target = ""
  /\ idx = 1
  /\ inDegree = NoGraph.inDegree
  /\ dependents = NoGraph.dependents
  /\ order = <<>>
  /\ result = NoResult
  /\ trace = <<>>
  /\ linkHistory = [c \in Apis |-> NoHistory]

NextSync ==
  \/ \E name \in Names, tree \in TreeStates, noRebase \in BOOLEAN :
        SyncRepo(name, tree, noRebase)
  \/ \E noRebase \in BOOLEAN : SyncAllRepos(noRebase)
  \/ SyncAllNext
  \/ RefuseIfDirty
  \/ FetchQuiet
  \/ RebaseQuiet

SpecSync == InitSync /\ [][NextSync]_vars

\* The positions of trace from the working tree seen at position i up to
\* the next repository's.
SyncOf(i) ==
  {j \in DOMAIN trace : j > i /\ \A k \in GitCalls("tree") : k <= i \/ k > j}

\* C28: a repository with local changes is never rebased and never stashed:
\* `spk sync <name>` returns an error for it without fetching or pulling,
\* `spk sync` runs git fetch on it and nothing more; and a failed rebase is
\* followed by rebase --abort and then the return of the error.
C28_DirtyNeverRebased ==
  /\ GitCalls("stash") = {}
  /\ \A i \in GitCalls("tree") :
       trace[i].res = "dirty" =>
         /\ \A j \in SyncOf(i) :
              /\ trace[j].ev \notin {"rebase", "stash", "pull"}
              /\ order = <<>> => trace[j].ev # "fetch"
         /\ (order = <<>> /\ pc = "idle") => result.status = "dirty"
  /\ \A i \in GitCalls("rebase") :
       trace[i].res = "failed" =>
         /\ trace[i + 1].ev = "abort"
         /\ trace[i + 2].ev = "return"
         /\ trace[i + 2].res = "rebasefailed"

\* ------------------------------------------------------------ spk env link

\* Most repositories of a workspace `spk env link` is run on.
MaxEnvRepos == 2

\* EnvDecision that takes every existing .env for a symlink.
EnvDecision_replaceAny(state, lstat) ==
  IF lstat = "error" THEN "create" ELSE "replace"

\* env.go 124-132: what the loop does with a repository whose .env is in
\* state `state`, os.Lstat having returned lstat ("info" or "error").
EnvDecision(state, lstat) ==
  IF lstat = "error" THEN "create"
  ELSE IF state \in {"symlink", "stale"} THEN "replace"
  ELSE "skip"

\* What os.Lstat can return for a .env in state `state`.
LstatOutcomes(state) == IF state = "absent" THEN {"error"} ELSE {"info", "error"}

\* env.go 126: os.Remove of the .env, its error dropped: the .env is gone
\* or, when the call failed, still there. Remove does not delete a
\* directory with entries; one without is deleted.
OsRemove(state) == {"absent", state}

\* env.go 134-138: os.Symlink creates the link where nothing is, and fails
\* where something is (or for another reason).
OsSymlink(state) == IF state = "absent" THEN {"symlink", "absent"} ELSE {state}

\* env.go 96-116: `spk env link` up to the loop. it is the order in which
\* the loop will visit ws.Repos.
EnvLinkCmd(it) ==
  /\ pc = "idle"
  /\ it \in Perms(Registered)
  /\ trace' = <<>>
  /\ target' = ""
  /\ idx' = 1
  /\ \/ /\ dotEnv[""] = "absent"
        /\ dotEnv' = [dotEnv EXCEPT ![""] = "regular"]
        /\ pc' = "envloop"
        /\ order' = it
        /\ result' = NoResult
     \/ /\ dotEnv[""] = "absent"
        /\ pc' = "idle"
        /\ order' = <<>>
        /\ result' = [status |-> "createfailed", at |-> ""]
        /\ UNCHANGED dotEnv
     \/ /\ dotEnv[""] # "absent"
        /\ pc' = "envloop"
        /\ order' = it
        /\ result' = NoResult
        /\ UNCHANGED dotEnv
  /\ UNCHANGED <<ws, cloned, projectFiles, built, slot, flagVars, inDegree,
                 dependents, linkHistory>>

\* env.go 118-145: one turn of the loop over ws.Repos, or after it
\* `return nil`.
EnvLinkNext ==
  /\ pc = "envloop"
  /\ \/ /\ idx > Len(order)
        /\ pc' = "idle"
        /\ result' = [status |-> "ok", at |-> ""]
        /\ UNCHANGED <<idx, target, trace, dotEnv>>
     \/ /\ idx <= Len(order)
        /\ order[idx] \notin cloned
        /\ idx' = idx + 1
        /\ target' = order[idx]
        /\ UNCHANGED <<pc, result, trace, dotEnv>>
     \/ /\ idx <= Len(order)
        /\ order[idx] \in cloned
        /\ idx' = idx + 1
        /\ target' = order[idx]
        /\ \E lstat \in LstatOutcomes(dotEnv[order[idx]]) :
             LET name == order[idx]
                 decision == EnvDecision(dotEnv[name], lstat)
             IN  IF decision = "skip"
                 THEN /\ trace' = Append(trace,
                                         Event("skip", name, "not a symlink", "",
                                               dotEnv[name], dotEnv[name]))
                      /\ UNCHANGED dotEnv
                 ELSE \E removed \in IF decision = "replace"
                                     THEN OsRemove(dotEnv[name])
                                     ELSE {dotEnv[name]} :
                        \E after \in OsSymlink(removed) :
                          /\ dotEnv' = [dotEnv EXCEPT ![name] = after]
                          /\ trace' =
                               Append(trace,
                                      Event("symlink", name,
                                            IF removed = "absent" /\ after = "symlink"
                                            THEN "ok" ELSE "failed",
                                            "", dotEnv[name], after))
        /\ UNCHANGED <<pc, result>>
  /\ UNCHANGED <<ws, cloned, projectFiles, built, slot, flagVars, planVars,
                 linkHistory>>

\* Every workspace of at most MaxEnvRepos repositories, at most one of them
\* not cloned, with every state of the .env of each cloned repository; the
\* .env of the workspace is there or not.
InitEnv ==
  /\ ws \in AllManifests(0)
  /\ Cardinality(Registered) <= MaxEnvRepos
  /\ \E r \in {"AppModel", "A", ""} : cloned = Registered \ {r}
  /\ projectFiles = cloned
  /\ built = [m \in Models |-> {}]
  /\ slot = [c \in Apis |-> "absent"]
  /\ dotEnv \in [Names \cup {""} -> EnvStates]
  /\ \A n \in Names \ cloned : dotEnv[n] = "absent"
  /\ dotEnv[""] \in {"absent", "regular"}
  /\ buildAll = FALSE
  /\ buildNoLink = FALSE
  /\ buildPublished = FALSE
  /\ runPublished = FALSE
  /\ runRecursive = FALSE
  /\ runTarget = ""
  /\ syncNoRebase = FALSE
  /\ script = ""
  /\ pc = "idle"
  /\ target = ""
  /\ idx = 1
  /\ inDegree = NoGraph.inDegree
  /\ dependents = NoGraph.dependents
  /\ order = <<>>
  /\ result = NoResult
  /\ trace = <<>>
  /\ linkHistory = [c \in Apis |-> NoHistory]

NextEnv ==
  \/ \E it \in Perms(Registered) : EnvLinkCmd(it)
  \/ EnvLinkNext

SpecEnv == InitEnv /\ [][NextEnv]_vars

\* C29: no step of env link changes a .env that is a regular file, and the
\* turn of such a repository is a skip (or, when os.Lstat itself failed, a
\* symlink call that fails); a .env that changes was absent or a
\* symlink and becomes a symlink to the workspace .env (or is left removed
\* when the symlink could not be made); and when the command returns, every
\* cloned repository has had its turn, whatever happened to the others.
C29_RegularEnvKept ==
  [][/\ \A n \in Names :
          /\ dotEnv[n] = "regular" => dotEnv'[n] = "regular"
          /\ dotEnv'[n] # dotEnv[n] =>
               /\ dotEnv[n] \in {"absent", "symlink", "stale"}
               /\ dotEnv'[n] \in {"symlink", "absent"}
          /\ (pc = "envloop" /\ idx <= Len(order) /\ order[idx] = n
                /\ n \in cloned /\ dotEnv[n] = "regular") =>
               /\ Len(trace') = Len(trace) + 1
               /\ \/ trace'[Len(trace')].ev = "skip"
                  \/ trace'[Len(trace')].res = "failed"
               /\ trace'[Len(trace')].after = "regular"
     /\ (pc = "envloop" /\ pc' = "idle") =>
          /\ result'.status = "ok"
          /\ \A n \in Registered \cap cloned :
               Cardinality({i \in DOMAIN trace : trace[i].repo = n}) = 1]_vars

\* env link has returned after skipping a repository with a regular .env,
\* failing to link another, in either order.
C29_Witness ==
  /\ pc = "idle"
  /\ result.status = "ok"
  /\ \E i \in DOMAIN trace, j \in DOMAIN trace :
       /\ trace[i].ev = "skip"
       /\ trace[i].before = "regular"
       /\ trace[j].ev = "symlink"
       /\ trace[j].res = "failed"
       /\ dotEnv[trace[i].repo] = "regular"

\* ------------------------------------------- spk remove, by manifest path

\* The workspace root, an absolute path, as its components.
wsPath == <<"home", "ws">>

\* The components a manifest Path is made of, and the most of them.
PathParts == {"..", ".", "x", "..x"}
MaxPathLen == 2

\* The values of RepoDef.Path: "" (no component), ".", "..", "x", "../x",
\* "x/..", ...
Paths == UNION {[1..n -> PathParts] : n \in 0..MaxPathLen}

\* The repositories a workspace `spk remove` is run on may register.
PathNames == {"A", "B"}

RECURSIVE CleanOnto(_, _)
\* filepath.Clean of a rooted path, component by component: "." is dropped,
\* ".." drops the component before it, and the root has no parent.
CleanOnto(done, parts) ==
  IF parts = <<>> THEN done
  ELSE LET rest == Tail(parts)
       IN  IF Head(parts) = "." THEN CleanOnto(done, rest)
           ELSE IF Head(parts) = ".."
           THEN CleanOnto(IF done = <<>> THEN done
                          ELSE SubSeq(done, 1, Len(done) - 1), rest)
           ELSE CleanOnto(Append(done, Head(parts)), rest)

\* remove.go 40: filepath.Join(wsPath, repo.Path).
Join(base, path) == CleanOnto(<<>>, base \o path)

\* The number of leading components base and targ share.
Common(base, targ) ==
  CHOOSE k \in 0..Len(base) :
    /\ k <= Len(targ)
    /\ SubSeq(base, 1, k) = SubSeq(targ, 1, k)
    /\ ~(k < Len(base) /\ k < Len(targ) /\ base[k + 1] = targ[k + 1])

\* remove.go 41: filepath.Rel(wsPath, repoDir) of two cleaned rooted paths;
\* "." when they are the same.
Rel(base, targ) ==
  LET k    == Common(base, targ)
      up   == [i \in 1..(Len(base) - k) |-> ".."]
      down == SubSeq(targ, k + 1, Len(targ))
  IN  IF up \o down = <<>> THEN <<".">> ELSE up \o down

\* remove.go 45: strings.HasPrefix(rel, "..") || rel == "..". The string
\* rel starts with ".." exactly when its first component does.
Escapes(rel) == rel[1] \in {"..", "..x"} \/ rel = <<"..">>

\* The directory of registered repository r.
DirOf(r) == Join(wsPath, ws[r].Path)

\* Directory dir is top or lies under it.
Within(dir, top) ==
  Len(dir) >= Len(top) /\ SubSeq(dir, 1, Len(top)) = top

\* remove.go 22-63: `spk remove <name>`, whatever the Path of the
\* repository. Deleting the workspace root deletes the manifest with it,
\* and the directories left behind by earlier failed deletions, which all
\* lie inside the workspace.
RemoveByPath(name) ==
  /\ pc = "idle"
  /\ target' = name
  /\ IF name \notin Registered
     THEN /\ result' = [status |-> "notfound", at |-> name]
          /\ UNCHANGED <<ws, fsVars>>
     ELSE IF Escapes(Rel(wsPath, DirOf(name)))
     THEN /\ result' = [status |-> "escapes", at |-> name]
          /\ UNCHANGED <<ws, fsVars>>
     ELSE \E out \in RemoveOutcomes :
            /\ result' = IF out = "savefailed"
                         THEN [status |-> out, at |-> name]
                         ELSE [status |-> out, at |-> name,
                               deleted |-> DirOf(name)]
            /\ \/ /\ out = "ok"
                  /\ ws' = IF DirOf(name) = wsPath THEN <<>>
                           ELSE RemoveRepo(ws, name)
                  /\ cloned' = {r \in cloned :
                                  IF r \in Registered
                                  THEN ~Within(DirOf(r), DirOf(name))
                                  ELSE DirOf(name) # wsPath}
                  /\ projectFiles' = projectFiles \cap cloned'
               \/ /\ out = "savefailed"
                  /\ UNCHANGED <<ws, cloned, projectFiles>>
               \/ /\ out = "removefailed"
                  /\ name \in cloned
                  /\ ws' = RemoveRepo(ws, name)
                  /\ UNCHANGED <<cloned, projectFiles>>
            /\ UNCHANGED <<built, slot, dotEnv>>
  /\ UNCHANGED <<flagVars, pc, idx, planVars, histVars>>

\* Every workspace over PathNames with every Path of Paths for each
\* repository; a directory at or above the workspace root exists, any other
\* may be missing.
InitPath ==
  /\ \E reg \in SUBSET PathNames :
       ws \in [reg -> [BuildCommand : {""}, Dependencies : {<<>>},
                       Path : Paths]]
  /\ cloned \in SUBSET Registered
  /\ \A r \in Registered : Within(wsPath, DirOf(r)) => r \in cloned
  /\ projectFiles = cloned
  /\ built = [m \in Models |-> {}]
  /\ slot = [c \in Apis |-> "absent"]
  /\ buildAll = FALSE
  /\ buildNoLink = FALSE
  /\ buildPublished = FALSE
  /\ runPublished = FALSE
  /\ runRecursive = FALSE
  /\ runTarget = ""
  /\ syncNoRebase = FALSE
  /\ dotEnv = NoEnv
  /\ script = ""
  /\ pc = "idle"
  /\ target = ""
  /\ idx = 1
  /\ inDegree = NoGraph.inDegree
  /\ dependents = NoGraph.dependents
  /\ order = <<>>
  /\ result = NoResult
  /\ trace = <<>>
  /\ linkHistory = [c \in Apis |-> NoHistory]

NextPath == \E name \in PathNames : RemoveByPath(name)

SpecPath == InitPath /\ [][NextPath]_vars

\* C30: whatever the Path of the repository, remove either refuses, leaving
\* the manifest and every directory as they were, or deletes a directory
\* that lies under the workspace root and is not the root, and with it only
\* directories inside that one.
C30_DeletesInsideOnly ==
  [][/\ result'.status = "escapes" => (ws' = ws /\ cloned' = cloned)
     /\ result'.status \in {"ok", "removefailed"} =>
          /\ Within(result'.deleted, wsPath)
          /\ result'.deleted # wsPath
          /\ \A r \in (cloned \ cloned') \cap Registered :
               Within(DirOf(r), result'.deleted)]_vars

====
